---- MODULE Spec2Model ----
(***************************************************************************)
(* SuperSpreader: paper broker, portfolio, risk engine and replay engine.  *)
(*                                                                         *)
(* Prices are integers in units of PriceUnit = 0.00005 (half of the       *)
(* broker's eps = 1e-4), so 1.0 is PriceOne = 20000 units and eps is 2     *)
(* units.  Quantities are integers.  Quotients (avg_price, realized_pnl,   *)
(* mid) are exact rationals <<num, den>>; float rounding is not modelled.  *)
(* Time is an integer number of seconds.                                   *)
(***************************************************************************)
EXTENDS Integers, Sequences, FiniteSets, Bags, TLC

VARIABLES
    fill_model,     \* PaperBroker._fill_model
    min_rest_secs,  \* PaperBroker._min_rest_secs
    now,            \* time.time()
    orders,         \* PaperBroker._orders: order_id -> Order (order_id = index)
    by_market,      \* PaperBroker._by_market: market_id -> set of order_id
    last_tob,       \* PaperBroker._last_tob: market_id -> TopOfBook (partial)
    fills,          \* list returned by the latest on_book / on_trade call
    store_fills,    \* rows of the store's fills table (insert_fill)
    store_updates,  \* update_order_status calls <<order_id, status>> issued by the latest call
    _meta_by_order_id, \* PaperBroker._meta_by_order_id: order_id -> meta of its request
    h_seen,         \* history: open orders that an on_book call evaluated and left open
    h_placed,       \* history: markets with a place_limit since their last on_book
    h_call,         \* history: kind of the latest call if it was on_book or on_trade
    settings,       \* Settings fields read by the risk engine
    state_tob,      \* ctx.state.tob: market_id -> TopOfBook with its ts (partial)
    positions,      \* Portfolio.positions: market_id -> Position (partial)
    h_cash,         \* history: market_id -> sum over applied fills of -signed_size * price
    h_applied,      \* history: number of Portfolio.apply_fill calls
    h_check,        \* history: the latest pre_trade_check call and its result
    pos_snapshots,  \* store: latest position_snapshots row per market_id
    last_trade_ts,  \* CrossVenueFairValueStrategy._last_trade_ts (partial)
    mode,           \* "live" (run_paper_trader), "backtest" (run_backtest), "done"
    tape,           \* store: rows of the tape table, in insertion order
    tape_pos,       \* run_backtest: tape rows replayed so far
    bt_pc,          \* run_backtest: position within the loop body
    h_live_final,   \* history: Portfolio.positions when the live session ended
    _quotes,        \* MarketMakingStrategy._quotes: market_id -> side key -> order_id (partial)
    _quote_meta,    \* MarketMakingStrategy._quote_meta: market_id -> bid_ts, bid_px, ask_ts, ask_px (partial)
    odds,           \* ctx.odds: the ExternalOdds its get_fair_prob returns
    h_iter,         \* history: the latest iter_tape call, its bounds and the rows it yielded
    _last,          \* PolymarketGammaPollStream._last: market_id -> <<best_bid, best_ask>> (partial)
    poll,           \* PolymarketGammaPollStream.events: position and locals of the generator
    h_events,       \* history: the BookEvents the Gamma feed yielded, in order
    last_unwind_ts, \* _inventory_unwind_loop: last_unwind_ts, market_id -> time (partial)
    unwind_wake,    \* _inventory_unwind_loop: time at which its asyncio.sleep ends
    h_unwind,       \* history: the latest _inventory_unwind_once call, market_id -> verdict
                    \* of the risk check of its flatten order (partial)
    running,        \* the task the event loop is running, "none" while all are suspended
    task_pc,        \* run_paper_trader: position of each of its five tasks
    lock,           \* SharedState.lock: the task holding it, or "none"
    markets,        \* SharedState.markets: market_id -> MarketInfo (partial)
    ranked_markets, \* SharedState.ranked_markets: market_ids in rank order
    scan_wake,      \* scanner_loop: time at which its asyncio.sleep ends
    loc,            \* locals of the tasks: scan result, feed batch and event, strategy round,
                    \* time at which the sleep of snapshot_loop ends, events yielded
    h_ops,          \* history: operations of the tasks, each with the lock holder it ran under
    h_eval,         \* history: markets whose TOB a strategy or unwind step has read and is
                    \* still acting on
    h_scans,        \* history: the outcome of each finished scan, "ok" or "failed", in order
    ws,             \* PolymarketClobWebSocketStream.events: position, backoff, keepalive task
    h_ws,           \* history: the last connection end and the sleep that followed it
    bt              \* run_backtest: its place, the tape rows and the lock of the store

broker_vars == <<fill_model, min_rest_secs, now, orders, by_market, last_tob, fills,
                 store_fills, store_updates, _meta_by_order_id>>
broker_hist == <<h_seen, h_placed, h_call>>
app_vars == <<settings, state_tob, positions, h_cash, h_applied, h_check, pos_snapshots,
              last_trade_ts>>
replay_vars == <<mode, tape, tape_pos, bt_pc, h_live_final>>
maker_vars == <<_quotes, _quote_meta, odds>>
feed_vars == <<_last, poll, h_events>>
unwind_vars == <<last_unwind_ts, unwind_wake, h_unwind>>
engine_vars == <<running, task_pc, lock, markets, ranked_markets, scan_wake, loc, h_ops,
                 h_eval, h_scans>>
ext_vars == <<ws, h_ws, bt>>
side_vars == <<feed_vars, unwind_vars, engine_vars, ext_vars>>
vars == <<broker_vars, broker_hist, app_vars, replay_vars, maker_vars, h_iter, side_vars>>

\* the generator of the Gamma feed before its first poll
PollIdle ==
    [pc |-> "sleep", want |-> <<>>, by_id |-> <<>>, now |-> 0, i |-> 0, polls |-> 0,
     status |-> "none"]

\* PolymarketGammaPollStream(): nothing observed, nothing yielded
FeedInit ==
    /\ _last = <<>>
    /\ poll = PollIdle
    /\ h_events = <<>>

\* time.time() when the process starts
Epoch == 100

\* _inventory_unwind_loop before its first cycle
UnwindInit ==
    /\ last_unwind_ts = <<>>
    /\ unwind_wake = 0
    /\ h_unwind = <<>>

\* run_paper_trader when asyncio.gather starts its tasks: SharedState() is empty
EngineInit ==
    /\ running = "none"
    /\ task_pc = [t \in {"scanner", "feed", "strategy", "snapshot", "unwind"} |-> "sleep"]
    /\ lock = "none"
    /\ markets = <<>>
    /\ ranked_markets = <<>>
    /\ scan_wake = 0
    /\ loc = [scan |-> <<>>, batch |-> <<>>, ev |-> <<>>, ids |-> <<>>, k |-> 0,
              snap_wake |-> Epoch + 1, events |-> 0]
    /\ h_ops = {}
    /\ h_eval = [t \in {"strategy", "unwind"} |-> {}]
    /\ h_scans = <<>>

\* the feed before its first connection attempt
\* `backoff = 1.0`, `min(30.0, ...)` and `random.random() * 0.25`, in milliseconds
BackoffStart == 1000
BackoffCap == 30000
JitterSpan == 250
Jitters == {0, JitterSpan - 1}
NoDelay == -1

WsInit ==
    /\ ws = [pc |-> "connect", backoff |-> BackoffStart, keepalive |-> "none",
             rx_frames |-> 0, pending |-> "none"]
    /\ h_ws = [ends |-> 0, kind |-> "none", delay |-> NoDelay, streak |-> 0, since |-> 0]

\* run_backtest before it is called
BtInit == bt = [pc |-> "idle", rows |-> <<>>, pos |-> 0, lock |-> "free", orders |-> 0,
                writes |-> 0]

ExtInit == WsInit /\ BtInit
SideInit == FeedInit /\ UnwindInit /\ EngineInit /\ ExtInit

----------------------------------------------------------------------------
(* Bounds and input sets *)

MaxOrders == 1
MaxTime == 1
\* orders placed through the risk gate in one run
MaxGatedOrders == 2

Markets == {"m1", "m2"}
\* markets the feed delivers events for
FeedMarkets == {"m1"}
Sides == {"buy", "sell"}
FillModels == {"on_book_cross", "maker_touch", "trade_through"}
MinRestChoices == {0, 1}

\* best_bid / best_ask of a TopOfBook that is None
NoPrice == -1
\* eps = 1e-4 in price units
Eps == 2

OrderPrices == {10000}
OrderSizes == {1}
BookPrices == {9997, 10000, 10003}
TradePrices == {9997, 10000, 10003}

TopOfBook(bid, ask) == [best_bid |-> bid, best_ask |-> ask]
\* books whose touch is within eps of the order price without being equal to it
EpsBooks == { TopOfBook(9999, 10003), TopOfBook(9997, 10001), TopOfBook(9998, 10002) }
BookInputs == { TopOfBook(b, a) : b \in BookPrices \cup {NoPrice},
                                  a \in BookPrices \cup {NoPrice} } \cup EpsBooks
TradeTick(side, price) == [side |-> side, price |-> price]
TradeInputs == { TradeTick(s, p) : s \in Sides, p \in TradePrices }
OrderRequest(m, side, price, size) ==
    [market_id |-> m, side |-> side, price |-> price, size |-> size]
OrderRequests == { OrderRequest(m, s, p, z) :
                     m \in Markets, s \in Sides, p \in OrderPrices, z \in OrderSizes }

Abs(x) == IF x < 0 THEN -x ELSE x

\* price 1.0 in price units
PriceOne == 20000

\* Settings defaults, money in price units
DefaultSettings ==
    [kill_switch |-> FALSE, max_open_positions |-> 0, max_pos_per_market |-> 200,
     max_event_exposure |-> 500 * PriceOne, daily_loss_limit |-> 200 * PriceOne,
     max_feed_lag_secs |-> 5, max_spread |-> 4000,
     edge_buffer |-> 200, fees_bps |-> 20, slippage_bps |-> 10, latency_bps |-> 5,
     base_order_size |-> 10, min_trade_cooldown_secs |-> 5,
     mm_quote_width |-> 400, mm_inventory_skew |-> <<1, 2>>, mm_min_quote_life_secs |-> 2,
     price_tick |-> 20, mm_join_touch |-> TRUE, mm_reprice_threshold |-> 20,
     disallow_mock_data |-> FALSE,
     max_pos_age_secs |-> 0, unwind_interval_secs |-> 10, unwind_max_markets_per_cycle |-> 2,
     top_n_markets |-> 20, min_24h_volume_usd |-> 20000, min_liquidity_usd |-> 5000,
     market_refresh_secs |-> 60, stop_before_end_secs |-> 3600]
SettingsChoices ==
    { DefaultSettings,
      [DefaultSettings EXCEPT !.kill_switch = TRUE],
      [DefaultSettings EXCEPT !.max_pos_per_market = 2, !.max_open_positions = 1],
      [DefaultSettings EXCEPT !.max_event_exposure = 25000, !.daily_loss_limit = 2],
      [DefaultSettings EXCEPT !.max_feed_lag_secs = 0, !.max_spread = 3] }

\* event_id of each market: MarketInfo.event_id from discovery in a live session,
\* "event:<market_id>" for the markets run_backtest creates from the tape
EventOf(m) ==
    IF mode = "live" THEN "e1" ELSE IF m = "m1" THEN "event:m1" ELSE "event:m2"

\* orders submitted through the risk gate: marketable buys and sells in m1, of good and
\* bad size and price, and one buy in m2
GatedSizes == {0, 1, 2}
GatedRequests ==
    { OrderRequest("m1", "buy", 10003, z) : z \in GatedSizes }
    \cup { OrderRequest("m1", "sell", 9997, z) : z \in GatedSizes }
    \cup { OrderRequest("m1", "buy", PriceOne + 1, 1), OrderRequest("m2", "buy", 10003, 1) }
\* book events <<market_id, tob>> the feed delivers to the trading loop
BookEvents ==
    { <<"m1", TopOfBook(9997, 10003)>>, <<"m1", TopOfBook(10003, 9997)>>,
      <<"m2", TopOfBook(9997, 10003)>> }

\* what a deterministic non-mock odds provider returns
DefaultOdds == [fair_prob |-> 10271, source |-> "odds_api"]

\* a TopOfBook as stored in ctx.state.tob, with its timestamp
StampedTob(tob, ts) == [best_bid |-> tob.best_bid, best_ask |-> tob.best_ask, ts |-> ts]
\* ctx.state.tob.get(market_id) returning None
NoTob == [best_bid |-> NoPrice, best_ask |-> NoPrice, ts |-> -1]
\* no pre_trade_check call recorded
NoCheck == [reason |-> "none"]

----------------------------------------------------------------------------
(* PaperBroker *)

Order(req, t) ==
    [market_id |-> req.market_id, side |-> req.side, price |-> req.price,
     size |-> req.size, created_ts |-> t, status |-> "open", filled_size |-> 0]

Fill(oid, o, px) ==
    [order_id |-> oid, market_id |-> o.market_id, side |-> o.side,
     price |-> px, size |-> o.size - o.filled_size]

\* Rested without the min_rest_secs test
Rested_NoRestTest(o, t) == TRUE

\* Rested with an off-by-one rest test that also holds back an order of age 0
Rested_Strict(o, t) == ~((t - o.created_ts) <= min_rest_secs)

\* the min_rest_secs test of on_book / on_trade (False means "continue")
Rested(o, t) == ~(min_rest_secs > 0 /\ (t - o.created_ts) < min_rest_secs)

\* a crossing fill (both book models): pay the touch when strictly through it
CrossFillPrice(o, tob) ==
    IF o.side = "buy" /\ tob.best_ask # NoPrice /\ o.price >= tob.best_ask
    THEN (IF o.price > tob.best_ask THEN tob.best_ask ELSE o.price)
    ELSE IF o.side = "sell" /\ tob.best_bid # NoPrice /\ o.price <= tob.best_bid
    THEN (IF o.price < tob.best_bid THEN tob.best_bid ELSE o.price)
    ELSE NoPrice

\* TouchFillPrice that takes a missing prev_tob for "was at the touch"
TouchFillPrice_NoPrev(o, tob, m) ==
    LET at_bid == m \notin DOMAIN last_tob
                  \/ (last_tob[m].best_bid # NoPrice
                      /\ Abs(o.price - last_tob[m].best_bid) <= Eps)
        at_ask == m \notin DOMAIN last_tob
                  \/ (last_tob[m].best_ask # NoPrice
                      /\ Abs(o.price - last_tob[m].best_ask) <= Eps)
    IN IF o.side = "buy" /\ tob.best_bid # NoPrice /\ at_bid
          /\ tob.best_bid < o.price - Eps
       THEN o.price
       ELSE IF o.side = "sell" /\ tob.best_ask # NoPrice /\ at_ask
          /\ tob.best_ask > o.price + Eps
       THEN o.price
       ELSE NoPrice

\* TouchFillPrice without the was_at_touch test
TouchFillPrice_NoTouchTest(o, tob, m) ==
    IF m \notin DOMAIN last_tob THEN NoPrice
    ELSE LET prev_tob == last_tob[m] IN
         IF o.side = "buy" /\ prev_tob.best_bid # NoPrice /\ tob.best_bid # NoPrice
            /\ tob.best_bid < o.price - Eps
         THEN o.price
         ELSE IF o.side = "sell" /\ prev_tob.best_ask # NoPrice /\ tob.best_ask # NoPrice
            /\ tob.best_ask > o.price + Eps
         THEN o.price
         ELSE NoPrice

\* maker_touch passive fill: resting at the previous touch and the touch moved away
TouchFillPrice(o, tob, m) ==
    IF m \notin DOMAIN last_tob THEN NoPrice
    ELSE LET prev_tob == last_tob[m] IN
         IF o.side = "buy" /\ prev_tob.best_bid # NoPrice /\ tob.best_bid # NoPrice
            /\ Abs(o.price - prev_tob.best_bid) <= Eps
            /\ tob.best_bid < o.price - Eps
         THEN o.price
         ELSE IF o.side = "sell" /\ prev_tob.best_ask # NoPrice /\ tob.best_ask # NoPrice
            /\ Abs(o.price - prev_tob.best_ask) <= Eps
            /\ tob.best_ask > o.price + Eps
         THEN o.price
         ELSE NoPrice

\* fill_price computed by on_book for one open, rested order (NoPrice = None)
BookFillPrice(o, tob, m) ==
    IF fill_model = "on_book_cross" THEN CrossFillPrice(o, tob)
    ELSE IF CrossFillPrice(o, tob) # NoPrice THEN CrossFillPrice(o, tob)
    ELSE TouchFillPrice(o, tob, m)

\* TradeFillPrice without the aggressor-side test
TradeFillPrice_AnySide(o, trade) ==
    IF o.side = "buy"
    THEN (IF trade.price > o.price THEN NoPrice ELSE o.price)
    ELSE (IF trade.price < o.price THEN NoPrice ELSE o.price)

\* fill_price computed by on_trade for one open, rested order
TradeFillPrice(o, trade) ==
    IF o.side = "buy"
    THEN (IF trade.side # "sell" THEN NoPrice
          ELSE IF trade.price > o.price THEN NoPrice ELSE o.price)
    ELSE (IF trade.side # "buy" THEN NoPrice
          ELSE IF trade.price < o.price THEN NoPrice ELSE o.price)

OrdersOf(m) == IF m \in DOMAIN by_market THEN by_market[m] ELSE {}

\* orders the loop of on_book / on_trade gets past the status and rest checks
Evaluated(m) == { oid \in OrdersOf(m) :
                    orders[oid].status = "open" /\ Rested(orders[oid], now) }

\* MarkFilled that forgets the status update
MarkFilled_KeepOpen(o) == [o EXCEPT !.filled_size = o.size]

\* o.filled_size = o.size; o.status = "filled"
MarkFilled(o) == [o EXCEPT !.filled_size = o.size, !.status = "filled"]

ApplyFills(fs) ==
    /\ orders' = [oid \in DOMAIN orders |->
                    IF \E f \in fs : f.order_id = oid
                    THEN MarkFilled(orders[oid]) ELSE orders[oid]]
    /\ fills' = fs
    /\ store_fills' = store_fills (+) SetToBag(fs)
    /\ store_updates' = { <<f.order_id, "filled">> : f \in fs }

\* req.meta or {}
RequestMeta(req) == IF "meta" \in DOMAIN req THEN req.meta ELSE <<>>

place_limit(req) ==
    /\ LET oid == Len(orders) + 1 IN
        /\ orders' = Append(orders, Order(req, now))
        /\ by_market' = [m \in DOMAIN by_market \cup {req.market_id} |->
                           IF m = req.market_id THEN OrdersOf(m) \cup {oid}
                           ELSE by_market[m]]
    /\ _meta_by_order_id' = Append(_meta_by_order_id, RequestMeta(req))
    /\ fills' = {}
    /\ store_updates' = {}
    /\ UNCHANGED <<fill_model, min_rest_secs, now, last_tob, store_fills>>

\* cancel without the "status != open" early return
cancel_AnyStatus(order_id) ==
    /\ orders' = IF order_id \in DOMAIN orders
                 THEN [orders EXCEPT ![order_id].status = "cancelled"]
                 ELSE orders
    /\ store_updates' = IF order_id \in DOMAIN orders
                        THEN { <<order_id, "cancelled">> } ELSE {}
    /\ fills' = {}
    /\ UNCHANGED <<fill_model, min_rest_secs, _meta_by_order_id, now, by_market, last_tob, store_fills>>

cancel(order_id) ==
    /\ orders' = IF order_id \in DOMAIN orders /\ orders[order_id].status = "open"
                 THEN [orders EXCEPT ![order_id].status = "cancelled"]
                 ELSE orders
    /\ store_updates' = IF order_id \in DOMAIN orders /\ orders[order_id].status = "open"
                        THEN { <<order_id, "cancelled">> } ELSE {}
    /\ fills' = {}
    /\ UNCHANGED <<fill_model, min_rest_secs, _meta_by_order_id, now, by_market, last_tob, store_fills>>

cancel_all_market(market_id) ==
    /\ orders' = [oid \in DOMAIN orders |->
                    IF oid \in OrdersOf(market_id) /\ orders[oid].status = "open"
                    THEN [orders[oid] EXCEPT !.status = "cancelled"]
                    ELSE orders[oid]]
    /\ store_updates' = { <<oid, "cancelled">> :
                            oid \in { x \in OrdersOf(market_id) : orders[x].status = "open" } }
    /\ fills' = {}
    /\ UNCHANGED <<fill_model, min_rest_secs, _meta_by_order_id, now, by_market, last_tob, store_fills>>

on_book(market_id, tob) ==
    IF fill_model \notin {"on_book_cross", "maker_touch"}
    THEN /\ fills' = {}
         /\ store_updates' = {}
         /\ UNCHANGED <<fill_model, min_rest_secs, _meta_by_order_id, now, orders, by_market,
                        last_tob, store_fills>>
    ELSE LET fs == { Fill(oid, orders[oid],
                          BookFillPrice(orders[oid], tob, market_id)) :
                       oid \in { x \in Evaluated(market_id) :
                                   BookFillPrice(orders[x], tob, market_id) # NoPrice } }
         IN /\ last_tob' = [m \in DOMAIN last_tob \cup {market_id} |->
                              IF m = market_id THEN tob ELSE last_tob[m]]
            /\ ApplyFills(fs)
            /\ UNCHANGED <<fill_model, min_rest_secs, _meta_by_order_id, now, by_market>>

on_trade(market_id, trade) ==
    IF fill_model # "trade_through"
    THEN /\ fills' = {}
         /\ store_updates' = {}
         /\ UNCHANGED <<fill_model, min_rest_secs, _meta_by_order_id, now, orders, by_market,
                        last_tob, store_fills>>
    ELSE LET fs == { Fill(oid, orders[oid], TradeFillPrice(orders[oid], trade)) :
                       oid \in { x \in Evaluated(market_id) :
                                   TradeFillPrice(orders[x], trade) # NoPrice } }
         IN /\ ApplyFills(fs)
            /\ UNCHANGED <<fill_model, min_rest_secs, _meta_by_order_id, now, by_market, last_tob>>

\* the wall clock advances between calls
Tick ==
    /\ now < MaxTime
    /\ now' = now + 1
    /\ fills' = {}
    /\ store_updates' = {}
    /\ UNCHANGED <<fill_model, min_rest_secs, _meta_by_order_id, orders, by_market, last_tob, store_fills>>

\* how the latest on_book call relates to the one before it
BookCallKind(market_id, tob) ==
    IF market_id \notin DOMAIN last_tob THEN "on_book_first"
    ELSE IF last_tob[market_id] = tob /\ market_id \notin h_placed THEN "on_book_repeat"
    ELSE "on_book"

\* history kept beside a broker call: kind of call, orders seen, markets placed in
BrokerHistory(kind, seen, placed) ==
    /\ h_call' = kind
    /\ h_seen' = seen
    /\ h_placed' = placed

BrokerInit ==
    /\ fill_model \in FillModels
    /\ min_rest_secs \in MinRestChoices
    /\ now = 0
    /\ orders = <<>>
    /\ by_market = <<>>
    /\ last_tob = <<>>
    /\ fills = {}
    /\ store_fills = EmptyBag
    /\ store_updates = {}
    /\ _meta_by_order_id = <<>>
    /\ h_seen = {}
    /\ h_placed = {}
    /\ h_call = "none"
    /\ settings = DefaultSettings
    /\ state_tob = <<>>
    /\ positions = <<>>
    /\ h_cash = <<>>
    /\ h_applied = 0
    /\ h_check = NoCheck
    /\ pos_snapshots = <<>>
    /\ last_trade_ts = <<>>
    /\ mode = "live"
    /\ tape = <<>>
    /\ tape_pos = 0
    /\ bt_pc = "sleep"
    /\ h_live_final = <<>>
    /\ _quotes = <<>>
    /\ _quote_meta = <<>>
    /\ odds = DefaultOdds
    /\ h_iter = <<>>
    /\ SideInit

PlaceLimitStep ==
    /\ Len(orders) < MaxOrders
    /\ \E req \in OrderRequests :
          place_limit(req) /\ BrokerHistory("none", h_seen, h_placed \cup {req.market_id})
    /\ UNCHANGED <<app_vars, replay_vars, maker_vars, h_iter, side_vars>>
CancelStep ==
    /\ \E oid \in 1..MaxOrders :
          cancel(oid) /\ BrokerHistory("none", h_seen \ {oid}, h_placed)
    /\ UNCHANGED <<app_vars, replay_vars, maker_vars, h_iter, side_vars>>
CancelAllMarketStep ==
    /\ \E m \in Markets :
          cancel_all_market(m) /\ BrokerHistory("none", h_seen \ OrdersOf(m), h_placed)
    /\ UNCHANGED <<app_vars, replay_vars, maker_vars, h_iter, side_vars>>
OnBookStep ==
    /\ \E m \in FeedMarkets, tob \in BookInputs :
          /\ on_book(m, tob)
          /\ IF fill_model \in {"on_book_cross", "maker_touch"}
             THEN BrokerHistory(BookCallKind(m, tob),
                                (h_seen \cup Evaluated(m)) \ { f.order_id : f \in fills' },
                                h_placed \ {m})
             ELSE BrokerHistory(BookCallKind(m, tob), h_seen, h_placed)
    /\ UNCHANGED <<app_vars, replay_vars, maker_vars, h_iter, side_vars>>
OnTradeStep ==
    /\ \E m \in FeedMarkets, trade \in TradeInputs :
          /\ on_trade(m, trade)
          /\ BrokerHistory("on_trade", h_seen \ { f.order_id : f \in fills' }, h_placed)
    /\ UNCHANGED <<app_vars, replay_vars, maker_vars, h_iter, side_vars>>
TickStep == Tick /\ UNCHANGED <<broker_hist, app_vars, replay_vars, maker_vars, h_iter, side_vars>>

BrokerNext ==
    \/ PlaceLimitStep
    \/ CancelStep
    \/ CancelAllMarketStep
    \/ OnBookStep
    \/ OnTradeStep
    \/ TickStep

SpecBroker == BrokerInit /\ [][BrokerNext]_vars

----------------------------------------------------------------------------
(* Exact rationals <<num, den>> with den > 0, in lowest terms *)

RECURSIVE GCD(_, _)
GCD(a, b) == IF b = 0 THEN a ELSE GCD(b, a % b)

Rat(n, d) ==
    LET g == GCD(Abs(n), Abs(d))
        sgn == IF d < 0 THEN -1 ELSE 1
    IN <<(sgn * n) \div g, (sgn * d) \div g>>
RInt(i) == <<i, 1>>
Zero == RInt(0)
RAdd(x, y) == Rat(x[1] * y[2] + y[1] * x[2], x[2] * y[2])
RSub(x, y) == Rat(x[1] * y[2] - y[1] * x[2], x[2] * y[2])
RMul(x, y) == Rat(x[1] * y[1], x[2] * y[2])
RLt(x, y) == x[1] * y[2] < y[1] * x[2]

RECURSIVE RSum(_, _)
\* sum of f[x] over x in S
RSum(f, S) ==
    IF S = {} THEN Zero
    ELSE LET x == CHOOSE y \in S : TRUE IN RAdd(f[x], RSum(f, S \ {x}))

clamp(x, lo, hi) == IF RLt(x, lo) THEN lo ELSE IF RLt(hi, x) THEN hi ELSE x

----------------------------------------------------------------------------
(* Portfolio *)

Position(market_id, event_id) ==
    [event_id |-> event_id, qty |-> 0, avg_price |-> Zero, realized_pnl |-> Zero,
     last_mark |-> Zero, opened_ts |-> 0]

get_or_create(P, market_id, event_id) ==
    IF market_id \in DOMAIN P THEN P[market_id] ELSE Position(market_id, event_id)

SignedQty(side, size) == IF side = "buy" THEN size ELSE -size
SameSign(a, b) == (a > 0 /\ b > 0) \/ (a < 0 /\ b < 0)
Min(a, b) == IF a < b THEN a ELSE b

\* the realized PnL booked as if every position were long
RealizedOnClose_AlwaysLong(p, price, closed) ==
    RMul(RSub(RInt(price), p.avg_price), RInt(closed))

\* realized PnL booked on the closed portion
RealizedOnClose(p, price, closed) ==
    IF p.qty > 0
    THEN RMul(RSub(RInt(price), p.avg_price), RInt(closed))
    ELSE RMul(RSub(p.avg_price, RInt(price)), RInt(closed))

\* apply_fill that keeps opened_ts when the position crosses through zero
FilledPosition_FlipKeepsAge(P, fill, event_id, ts) ==
    LET p == [get_or_create(P, fill.market_id, event_id) EXCEPT !.event_id = event_id]
        signed_qty == SignedQty(fill.side, fill.size)
        old_qty == p.qty
        new_qty == p.qty + signed_qty
    IN IF p.qty = 0 \/ SameSign(p.qty, signed_qty)
       THEN LET notional == RAdd(RMul(RInt(Abs(p.qty)), p.avg_price),
                                 RInt(Abs(signed_qty) * fill.price))
            IN [p EXCEPT !.qty = new_qty,
                         !.avg_price = IF new_qty # 0
                                       THEN RMul(notional, Rat(1, Abs(new_qty)))
                                       ELSE Zero,
                         !.opened_ts = IF old_qty = 0 /\ new_qty # 0 THEN ts ELSE @]
       ELSE LET closed == Min(Abs(p.qty), Abs(signed_qty))
                realized == RAdd(p.realized_pnl, RealizedOnClose(p, fill.price, closed))
            IN IF new_qty = 0
               THEN [p EXCEPT !.realized_pnl = realized, !.qty = new_qty,
                              !.avg_price = Zero, !.opened_ts = 0]
               ELSE [p EXCEPT !.realized_pnl = realized, !.qty = new_qty,
                              !.avg_price = IF SameSign(new_qty, signed_qty)
                                            THEN RInt(fill.price) ELSE @]

\* the Position of fill.market_id after Portfolio.apply_fill(fill, event_id)
FilledPosition(P, fill, event_id, ts) ==
    LET p == [get_or_create(P, fill.market_id, event_id) EXCEPT !.event_id = event_id]
        signed_qty == SignedQty(fill.side, fill.size)
        old_qty == p.qty
        new_qty == p.qty + signed_qty
    IN IF p.qty = 0 \/ SameSign(p.qty, signed_qty)
       THEN LET notional == RAdd(RMul(RInt(Abs(p.qty)), p.avg_price),
                                 RInt(Abs(signed_qty) * fill.price))
            IN [p EXCEPT !.qty = new_qty,
                         !.avg_price = IF new_qty # 0
                                       THEN RMul(notional, Rat(1, Abs(new_qty)))
                                       ELSE Zero,
                         !.opened_ts = IF old_qty = 0 /\ new_qty # 0 THEN ts ELSE @]
       ELSE LET closed == Min(Abs(p.qty), Abs(signed_qty))
                realized == RAdd(p.realized_pnl, RealizedOnClose(p, fill.price, closed))
            IN IF new_qty = 0
               THEN [p EXCEPT !.realized_pnl = realized, !.qty = new_qty,
                              !.avg_price = Zero, !.opened_ts = 0]
               ELSE [p EXCEPT !.realized_pnl = realized, !.qty = new_qty,
                              !.avg_price = IF SameSign(new_qty, signed_qty)
                                            THEN RInt(fill.price) ELSE @,
                              !.opened_ts = IF old_qty # 0 /\ ~SameSign(old_qty, new_qty)
                                            THEN ts ELSE @]

apply_fill(P, fill, event_id, ts) ==
    [m \in DOMAIN P \cup {fill.market_id} |->
        IF m = fill.market_id THEN FilledPosition(P, fill, event_id, ts) ELSE P[m]]

HasMark(tob) == tob.best_bid # NoPrice \/ tob.best_ask # NoPrice
\* mid if both sides are present, else the side that is
Mid(tob) ==
    IF tob.best_bid # NoPrice /\ tob.best_ask # NoPrice
    THEN Rat(tob.best_bid + tob.best_ask, 2)
    ELSE IF tob.best_bid # NoPrice THEN RInt(tob.best_bid)
    ELSE RInt(tob.best_ask)

unrealized_pnl(P, market_id, tob) ==
    IF market_id \notin DOMAIN P \/ tob = NoTob THEN Zero
    ELSE IF ~HasMark(tob) THEN Zero
    ELSE RMul(RSub(Mid(tob), P[market_id].avg_price), RInt(P[market_id].qty))

total_realized(P) == RSum([m \in DOMAIN P |-> P[m].realized_pnl], DOMAIN P)

----------------------------------------------------------------------------
(* RiskEngine *)

circuit_ok(tob, t) ==
    IF tob = NoTob THEN "no_top_of_book"
    ELSE IF (t - tob.ts) > settings.max_feed_lag_secs THEN "feed_lag"
    ELSE IF tob.best_bid # NoPrice /\ tob.best_ask # NoPrice
            /\ tob.best_ask - tob.best_bid < 0 THEN "crossed_book"
    ELSE IF tob.best_bid # NoPrice /\ tob.best_ask # NoPrice
            /\ tob.best_ask - tob.best_bid > settings.max_spread THEN "spread_too_wide"
    ELSE "ok"

CurQty(P, market_id) == IF market_id \in DOMAIN P THEN P[market_id].qty ELSE 0

is_reduce_only(cur_qty, new_qty) ==
    Abs(new_qty) < Abs(cur_qty) \/ (cur_qty # 0 /\ new_qty = 0)

\* last_mark if it is positive, else avg_price
MarkOf(p) == IF RLt(Zero, p.last_mark) THEN p.last_mark ELSE p.avg_price

EventExposure(P, event_id, signed, price) ==
    RAdd(RSum([m \in DOMAIN P |->
                 IF P[m].event_id # event_id THEN Zero
                 ELSE RMul(RInt(Abs(P[m].qty)), clamp(MarkOf(P[m]), Zero, RInt(PriceOne)))],
              DOMAIN P),
         RMul(RInt(Abs(signed)), clamp(RInt(price), Zero, RInt(PriceOne))))

TotalPnl(P) ==
    RAdd(total_realized(P),
         RSum([m \in DOMAIN P |->
                 RMul(RSub(MarkOf(P[m]), P[m].avg_price), RInt(P[m].qty))],
              DOMAIN P))

\* PositionRules whose kill switch only blocks opening from flat
PositionRules_KillSwitchFlatOnly(market_id, event_id, side, price, size, P) ==
    LET cur_qty == CurQty(P, market_id)
        signed == SignedQty(side, size)
        new_qty == cur_qty + signed
        reduce_only == is_reduce_only(cur_qty, new_qty)
        max_open == settings.max_open_positions
        open_count == Cardinality({ m \in DOMAIN P : P[m].qty # 0 })
    IN IF max_open > 0 /\ ~reduce_only /\ cur_qty = 0 /\ new_qty # 0
          /\ open_count >= max_open
       THEN "max_open_positions"
       ELSE IF settings.kill_switch /\ ~reduce_only /\ cur_qty = 0 THEN "kill_switch"
       ELSE IF Abs(new_qty) > settings.max_pos_per_market THEN "max_pos_per_market"
       ELSE IF RLt(RInt(settings.max_event_exposure),
                   EventExposure(P, event_id, signed, price))
       THEN "max_event_exposure"
       ELSE IF RLt(TotalPnl(P), RInt(-settings.daily_loss_limit)) /\ ~reduce_only
       THEN "daily_loss_limit"
       ELSE "ok"

\* PositionRules that looks at the kill switch before the open-positions cap
PositionRules_KillSwitchFirst(market_id, event_id, side, price, size, P) ==
    LET cur_qty == CurQty(P, market_id)
        signed == SignedQty(side, size)
        new_qty == cur_qty + signed
        reduce_only == is_reduce_only(cur_qty, new_qty)
        max_open == settings.max_open_positions
        open_count == Cardinality({ m \in DOMAIN P : P[m].qty # 0 })
    IN IF settings.kill_switch /\ ~reduce_only THEN "kill_switch"
       ELSE IF max_open > 0 /\ ~reduce_only /\ cur_qty = 0 /\ new_qty # 0
          /\ open_count >= max_open
       THEN "max_open_positions"
       ELSE IF Abs(new_qty) > settings.max_pos_per_market THEN "max_pos_per_market"
       ELSE IF RLt(RInt(settings.max_event_exposure),
                   EventExposure(P, event_id, signed, price))
       THEN "max_event_exposure"
       ELSE IF RLt(TotalPnl(P), RInt(-settings.daily_loss_limit)) /\ ~reduce_only
       THEN "daily_loss_limit"
       ELSE "ok"

\* the rules after the circuit breaker; "ok" or the reason of the first rule that fails
PositionRules(market_id, event_id, side, price, size, P) ==
    LET cur_qty == CurQty(P, market_id)
        signed == SignedQty(side, size)
        new_qty == cur_qty + signed
        reduce_only == is_reduce_only(cur_qty, new_qty)
        max_open == settings.max_open_positions
        open_count == Cardinality({ m \in DOMAIN P : P[m].qty # 0 })
    IN IF max_open > 0 /\ ~reduce_only /\ cur_qty = 0 /\ new_qty # 0
          /\ open_count >= max_open
       THEN "max_open_positions"
       ELSE IF settings.kill_switch /\ ~reduce_only THEN "kill_switch"
       ELSE IF Abs(new_qty) > settings.max_pos_per_market THEN "max_pos_per_market"
       ELSE IF RLt(RInt(settings.max_event_exposure),
                   EventExposure(P, event_id, signed, price))
       THEN "max_event_exposure"
       ELSE IF RLt(TotalPnl(P), RInt(-settings.daily_loss_limit)) /\ ~reduce_only
       THEN "daily_loss_limit"
       ELSE "ok"

pre_trade_check(market_id, event_id, side, price, size, tob, P, t) ==
    IF size <= 0 THEN "bad_size"
    ELSE IF ~(0 <= price /\ price <= PriceOne) THEN "bad_price"
    ELSE IF circuit_ok(tob, t) # "ok" THEN circuit_ok(tob, t)
    ELSE PositionRules(market_id, event_id, side, price, size, P)

----------------------------------------------------------------------------
(* Trading loop: feed events, fills applied to the portfolio, risk-gated orders *)

StateTob(market_id) ==
    IF market_id \in DOMAIN state_tob THEN state_tob[market_id] ELSE NoTob

\* the orders in which a list holding the fills fs can be iterated
Orderings(fs) ==
    { seq \in [1..Cardinality(fs) -> fs] :
        \A i, j \in 1..Cardinality(fs) : i # j => seq[i] # seq[j] }

RECURSIVE ApplyFillSeq(_, _, _)
ApplyFillSeq(P, seq, ts) ==
    IF seq = <<>> THEN P
    ELSE ApplyFillSeq(apply_fill(P, Head(seq), EventOf(Head(seq).market_id), ts),
                      Tail(seq), ts)

RECURSIVE CashAfter(_, _)
CashAfter(cash, fs) ==
    IF fs = {} THEN cash
    ELSE LET f == CHOOSE x \in fs : TRUE
             was == IF f.market_id \in DOMAIN cash THEN cash[f.market_id] ELSE 0
         IN CashAfter([m \in DOMAIN cash \cup {f.market_id} |->
                         IF m = f.market_id
                         THEN was - SignedQty(f.side, f.size) * f.price
                         ELSE cash[m]],
                      fs \ {f})

\* _apply_fills with apply_fill after the loop over the fills: the last fill only
_apply_fills_LastOnly(fs) ==
    /\ \E seq \in Orderings(fs) :
          positions' = ApplyFillSeq(positions, IF seq = <<>> THEN seq ELSE <<seq[Len(seq)]>>,
                                    now)
    /\ h_cash' = CashAfter(h_cash, fs)
    /\ h_applied' = h_applied + Cardinality(fs)

_apply_fills(fs) ==
    /\ \E seq \in Orderings(fs) : positions' = ApplyFillSeq(positions, seq, now)
    /\ h_cash' = CashAfter(h_cash, fs)
    /\ h_applied' = h_applied + Cardinality(fs)

\* _handle_feed_event for a BookEvent whose tob carries the timestamp ts
handle_book_event(market_id, tob, ts) ==
    /\ state_tob' = [m \in DOMAIN state_tob \cup {market_id} |->
                       IF m = market_id THEN StampedTob(tob, ts) ELSE state_tob[m]]
    /\ on_book(market_id, tob)
    /\ _apply_fills(fills')
    /\ h_check' = NoCheck
    /\ UNCHANGED <<settings, broker_hist, pos_snapshots, last_trade_ts>>

\* the position_snapshots row written for the position p
PositionSnapshot(p) ==
    [event_id |-> p.event_id, position |-> p.qty, avg_price |-> p.avg_price,
     mark_price |-> p.last_mark, realized_pnl |-> p.realized_pnl]

_persist_snapshots ==
    /\ positions' = [m \in DOMAIN positions |->
                       [positions[m] EXCEPT !.last_mark =
                            IF HasMark(StateTob(m)) THEN Mid(StateTob(m))
                            ELSE positions[m].avg_price]]
    /\ pos_snapshots' = [m \in DOMAIN pos_snapshots \cup DOMAIN positions |->
                           IF m \in DOMAIN positions THEN PositionSnapshot(positions'[m])
                           ELSE pos_snapshots[m]]
    /\ h_check' = NoCheck
    /\ UNCHANGED <<broker_vars, broker_hist, settings, state_tob, h_cash, h_applied,
                   last_trade_ts>>

RiskOf(req) ==
    pre_trade_check(req.market_id, EventOf(req.market_id), req.side, req.price,
                    req.size, StateTob(req.market_id), positions, now)

\* r = pre_trade_check(...); if r.ok: place_limit(req)
GateAndPlace(req) ==
    LET cur_qty == CurQty(positions, req.market_id)
    IN /\ h_check' = [reduce_only |-> is_reduce_only(cur_qty, cur_qty
                                                        + SignedQty(req.side, req.size)),
                      reason |-> RiskOf(req)]
       /\ IF RiskOf(req) = "ok" THEN place_limit(req) ELSE UNCHANGED broker_vars
       /\ UNCHANGED <<broker_hist, settings, state_tob, positions, h_cash, h_applied,
                    pos_snapshots>>

\* an order of any strategy: side, price and size are the strategy's choice
risk_gated_place(req) ==
    /\ RiskOf(req) = "ok" => Len(orders) < MaxGatedOrders
    /\ GateAndPlace(req)
    /\ UNCHANGED last_trade_ts

TradingInit ==
    /\ fill_model = "on_book_cross"
    /\ min_rest_secs = 0
    /\ now = 0
    /\ orders = <<>>
    /\ by_market = <<>>
    /\ last_tob = <<>>
    /\ fills = {}
    /\ store_fills = EmptyBag
    /\ store_updates = {}
    /\ _meta_by_order_id = <<>>
    /\ h_seen = {}
    /\ h_placed = {}
    /\ h_call = "none"
    /\ settings \in SettingsChoices
    /\ state_tob = <<>>
    /\ positions = <<>>
    /\ h_cash = <<>>
    /\ h_applied = 0
    /\ h_check = NoCheck
    /\ pos_snapshots = <<>>
    /\ last_trade_ts = <<>>
    /\ mode = "live"
    /\ tape = <<>>
    /\ tape_pos = 0
    /\ bt_pc = "sleep"
    /\ h_live_final = <<>>
    /\ _quotes = <<>>
    /\ _quote_meta = <<>>
    /\ odds = DefaultOdds
    /\ h_iter = <<>>
    /\ SideInit

GatedPlaceStep ==
    /\ \E req \in GatedRequests : risk_gated_place(req)
    /\ UNCHANGED <<replay_vars, maker_vars, h_iter, side_vars>>
BookEventStep ==
    /\ \E ev \in BookEvents : handle_book_event(ev[1], ev[2], now)
    /\ UNCHANGED <<replay_vars, maker_vars, h_iter, side_vars>>
SnapshotStep == _persist_snapshots /\ UNCHANGED <<replay_vars, maker_vars, h_iter, side_vars>>

TradingNext ==
    \/ GatedPlaceStep
    \/ BookEventStep
    \/ SnapshotStep
    \/ TickStep

SpecTrading == TradingInit /\ [][TradingNext]_vars

----------------------------------------------------------------------------
(* Portfolio alone: any sequence of fills applied to a new Portfolio *)

\* apply_fill calls in one run
MaxFills == 3
FillInputs ==
    { [order_id |-> 1, market_id |-> "m1", side |-> s, price |-> p, size |-> z] :
        s \in Sides, p \in BookPrices, z \in {1, 2, 3} }

ApplyFillStep ==
    /\ h_applied < MaxFills
    /\ \E fill \in FillInputs : _apply_fills({fill})
    /\ UNCHANGED <<broker_vars, broker_hist, settings, state_tob, h_check, pos_snapshots,
                   last_trade_ts, replay_vars, maker_vars, h_iter, side_vars>>

\* Portfolio(): no positions
PortfolioInit == TradingInit /\ settings = DefaultSettings

PortfolioNext == ApplyFillStep

SpecPortfolio == PortfolioInit /\ [][PortfolioNext]_vars

----------------------------------------------------------------------------
(* CrossVenueFairValueStrategy with deterministic external odds *)

\* ExternalOdds.fair_prob of a deterministic provider, in price units
FairProb(m) == 10271

ClampPrice(x) == IF x < 0 THEN 0 ELSE IF x > PriceOne THEN PriceOne ELSE x
prob_to_price(prob) == ClampPrice(prob)
\* bps / 10000 in price units
bps_to_decimal(bps) == (bps * PriceOne) \div 10000

apply_buffers(price, fees_bps, slippage_bps, latency_bps, side) ==
    LET buf == bps_to_decimal(fees_bps + slippage_bps + latency_bps)
    IN IF side = "buy" THEN ClampPrice(price - buf) ELSE ClampPrice(price + buf)

CoolingDown(market_id) ==
    /\ market_id \in DOMAIN last_trade_ts
    /\ (now - last_trade_ts[market_id]) < settings.min_trade_cooldown_secs

\* the order of an on_market that never waits for the cooldown
CrossVenueOrder_NoCooldown(market_id) ==
    LET tob == StateTob(market_id)
        fair_price == prob_to_price(FairProb(market_id))
        buy_fair == apply_buffers(fair_price, settings.fees_bps, settings.slippage_bps,
                                  settings.latency_bps, "buy")
        sell_fair == apply_buffers(fair_price, settings.fees_bps, settings.slippage_bps,
                                   settings.latency_bps, "sell")
        edge == settings.edge_buffer
    IN IF tob = NoTob \/ tob.best_bid = NoPrice \/ tob.best_ask = NoPrice
       THEN OrderRequest(market_id, "buy", 0, 0)
       ELSE IF tob.best_ask < buy_fair - edge
       THEN OrderRequest(market_id, "buy", tob.best_ask, settings.base_order_size)
       ELSE IF tob.best_bid > sell_fair + edge
       THEN OrderRequest(market_id, "sell", tob.best_bid, settings.base_order_size)
       ELSE OrderRequest(market_id, "buy", 0, 0)

\* the order on_market decides on, its size 0 if it decides on none
CrossVenueOrder(market_id) ==
    LET tob == StateTob(market_id)
        fair_price == prob_to_price(FairProb(market_id))
        buy_fair == apply_buffers(fair_price, settings.fees_bps, settings.slippage_bps,
                                  settings.latency_bps, "buy")
        sell_fair == apply_buffers(fair_price, settings.fees_bps, settings.slippage_bps,
                                   settings.latency_bps, "sell")
        edge == settings.edge_buffer
    IN IF tob = NoTob \/ tob.best_bid = NoPrice \/ tob.best_ask = NoPrice
          \/ CoolingDown(market_id)
       THEN OrderRequest(market_id, "buy", 0, 0)
       ELSE IF tob.best_ask < buy_fair - edge
       THEN OrderRequest(market_id, "buy", tob.best_ask, settings.base_order_size)
       ELSE IF tob.best_bid > sell_fair + edge
       THEN OrderRequest(market_id, "sell", tob.best_bid, settings.base_order_size)
       ELSE OrderRequest(market_id, "buy", 0, 0)

\* on_market that records the trade time whether or not the risk check passed
cross_venue_on_market_StampOnAttempt(market_id) ==
    LET req == CrossVenueOrder(market_id)
    IN IF req.size = 0
       THEN UNCHANGED <<broker_vars, broker_hist, app_vars>>
       ELSE /\ GateAndPlace(req)
            /\ last_trade_ts' =
                 [m \in DOMAIN last_trade_ts \cup {market_id} |->
                    IF m = market_id THEN now ELSE last_trade_ts[m]]

cross_venue_on_market(market_id) ==
    LET req == CrossVenueOrder(market_id)
    IN IF req.size = 0
       THEN UNCHANGED <<broker_vars, broker_hist, app_vars>>
       ELSE /\ GateAndPlace(req)
            /\ last_trade_ts' =
                 IF RiskOf(req) = "ok"
                 THEN [m \in DOMAIN last_trade_ts \cup {market_id} |->
                         IF m = market_id THEN now ELSE last_trade_ts[m]]
                 ELSE last_trade_ts

----------------------------------------------------------------------------
(* MarketMakingStrategy *)

RMin(x, y) == IF RLt(y, x) THEN y ELSE x
RMax(x, y) == IF RLt(x, y) THEN y ELSE x
\* math.floor and math.ceil of a rational
RFloor(x) == x[1] \div x[2]
RCeil(x) == -((-x[1]) \div x[2])
IMax(a, b) == IF a < b THEN b ELSE a

\* ExternalOdds a provider can return: fair_prob in price units and source
OddsSources == {"mock", "Mock", "odds_api"}
ExternalOdds(src) == [fair_prob |-> 10271, source |-> src]
\* str(ext_source or "").lower()
Lower(str) == CASE str = "Mock" -> "mock" [] OTHER -> str

\* tick: price_tick, replaced by 0.001 when outside [1e-6, 0.5] (1e-6 is below one
\* price unit, so every positive tick passes the lower test)
PriceTick ==
    IF settings.price_tick >= 1 /\ 2 * settings.price_tick <= PriceOne
    THEN settings.price_tick ELSE 20

\* fair and meta with the source compared as it is, not lower-cased
MakerFair_SourceAsIs(tob, ext) ==
    LET mid == Rat(tob.best_bid + tob.best_ask, 2)
        base == [strategy |-> "market_making", mid |-> mid]
    IN IF settings.disallow_mock_data
       THEN base @@ [fair |-> mid, source |-> "book_mid"]
       ELSE LET ext_fair == RInt(prob_to_price(ext.fair_prob))
                use_mid == ext.source = "mock"
                fair == IF use_mid THEN mid ELSE ext_fair
                fair_source == IF use_mid THEN "book_mid"
                               ELSE IF ext.source # "" THEN ext.source ELSE "external"
            IN IF ~use_mid
               THEN base @@ [fair |-> fair, source |-> fair_source,
                             external_source |-> ext.source]
               ELSE base @@ [fair |-> fair, source |-> fair_source]

\* fair and the meta of the quotes, from the book mid and the external odds
MakerFair(tob, ext) ==
    LET mid == Rat(tob.best_bid + tob.best_ask, 2)
        base == [strategy |-> "market_making", mid |-> mid]
    IN IF settings.disallow_mock_data
       THEN base @@ [fair |-> mid, source |-> "book_mid"]
       ELSE LET ext_fair == RInt(prob_to_price(ext.fair_prob))
                use_mid == Lower(ext.source) = "mock"
                fair == IF use_mid THEN mid ELSE ext_fair
                fair_source == IF use_mid THEN "book_mid"
                               ELSE IF ext.source # "" THEN ext.source ELSE "external"
            IN IF ~use_mid
               THEN base @@ [fair |-> fair, source |-> fair_source,
                             external_source |-> ext.source]
               ELSE base @@ [fair |-> fair, source |-> fair_source]

\* <<target_bid, target_ask>> of on_market for the book tob, inventory inv and fair
MakerTargets(tob, inv, fair) ==
    LET tick == PriceTick
        max_pos == IMax(1, settings.max_pos_per_market)
        inv_frac == clamp(Rat(inv, max_pos), RInt(-1), RInt(1))
        spread == tob.best_ask - tob.best_bid
        width_cap == IMax(settings.mm_quote_width, 2 * tick)
        width == Min(width_cap, IMax(spread + 2 * tick, 6 * tick))
        skew == RMul(RMul(RSub(Zero, inv_frac), settings.mm_inventory_skew), RInt(width))
        lo == RInt(tick)
        hi == RInt(PriceOne - tick)
        bid0 == clamp(RSub(RAdd(fair, skew), Rat(width, 2)), lo, hi)
        ask0 == clamp(RAdd(RAdd(fair, skew), Rat(width, 2)), lo, hi)
        bid1 == IF settings.mm_join_touch /\ ~RLt(Rat(1, 4), inv_frac)
                THEN RMax(bid0, RInt(tob.best_bid)) ELSE bid0
        ask1 == IF settings.mm_join_touch /\ ~RLt(inv_frac, Rat(-1, 4))
                THEN RMin(ask0, RInt(tob.best_ask)) ELSE ask0
        bid2 == RMin(bid1, RInt(tob.best_ask - tick))
        ask2 == RMax(ask1, RInt(tob.best_bid + tick))
        bid3 == RInt(RFloor(RMul(bid2, Rat(1, tick))) * tick)
        ask3 == RInt(RCeil(RMul(ask2, Rat(1, tick))) * tick)
        bid4 == clamp(bid3, lo, hi)
        ask4 == clamp(ask3, lo, hi)
        bid5 == RMin(bid4, RInt(tob.best_ask - tick))
        ask5 == RMax(ask4, RInt(tob.best_bid + tick))
    IN <<bid5[1], ask5[1]>>

\* PaperBroker.cancel on the blotter ords
CancelledIn(ords, order_id) ==
    IF order_id \in DOMAIN ords /\ ords[order_id].status = "open"
    THEN [ords EXCEPT ![order_id].status = "cancelled"] ELSE ords

\* _ensure_quote that places the replacement and leaves the previous quote resting
_ensure_quote_NoCancel(st, req, ok) ==
    LET key == IF req.side = "buy" THEN "bid" ELSE "ask"
        has == key \in DOMAIN st.q
        last_ts == IF key \in DOMAIN st.qm THEN st.qm[key].ts ELSE 0
        needs_replace ==
            \/ ~has
            \/ (now - last_ts) >= settings.mm_min_quote_life_secs
            \/ (has /\ key \in DOMAIN st.qm
                /\ Abs(st.qm[key].px - req.price) >= IMax(settings.mm_reprice_threshold, 1))
        cancelled == IF has THEN CancelledIn(st.orders, st.q[key]) ELSE st.orders
        updates == IF has /\ cancelled # st.orders
                   THEN st.updates \cup { <<st.q[key], "cancelled">> } ELSE st.updates
        popped == [k \in DOMAIN st.q \ {key} |-> st.q[k]]
        oid == Len(st.orders) + 1
    IN IF ~needs_replace THEN st
       ELSE IF ~ok THEN [st EXCEPT !.orders = cancelled, !.updates = updates, !.q = popped]
       ELSE [orders |-> Append(st.orders, Order(req, now)),
             by_market |-> [m \in DOMAIN st.by_market \cup {req.market_id} |->
                              IF m = req.market_id
                              THEN (IF m \in DOMAIN st.by_market THEN st.by_market[m] ELSE {})
                                   \cup {oid}
                              ELSE st.by_market[m]],
             metas |-> Append(st.metas, RequestMeta(req)),
             updates |-> st.updates,
             q |-> [k \in DOMAIN st.q \cup {key} |-> IF k = key THEN oid ELSE st.q[k]],
             qm |-> [k \in DOMAIN st.qm \cup {key} |->
                       IF k = key THEN [ts |-> now, px |-> req.price] ELSE st.qm[k]]]

\* _ensure_quote on st = the blotter and the quotes of the market; ok = r.ok
_ensure_quote(st, req, ok) ==
    LET key == IF req.side = "buy" THEN "bid" ELSE "ask"
        has == key \in DOMAIN st.q
        last_ts == IF key \in DOMAIN st.qm THEN st.qm[key].ts ELSE 0
        needs_replace ==
            \/ ~has
            \/ (now - last_ts) >= settings.mm_min_quote_life_secs
            \/ (has /\ key \in DOMAIN st.qm
                /\ Abs(st.qm[key].px - req.price) >= IMax(settings.mm_reprice_threshold, 1))
        cancelled == IF has THEN CancelledIn(st.orders, st.q[key]) ELSE st.orders
        updates == IF has /\ cancelled # st.orders
                   THEN st.updates \cup { <<st.q[key], "cancelled">> } ELSE st.updates
        popped == [k \in DOMAIN st.q \ {key} |-> st.q[k]]
        oid == Len(st.orders) + 1
    IN IF ~needs_replace THEN st
       ELSE IF ~ok THEN [st EXCEPT !.orders = cancelled, !.updates = updates, !.q = popped]
       ELSE [orders |-> Append(cancelled, Order(req, now)),
             by_market |-> [m \in DOMAIN st.by_market \cup {req.market_id} |->
                              IF m = req.market_id
                              THEN (IF m \in DOMAIN st.by_market THEN st.by_market[m] ELSE {})
                                   \cup {oid}
                              ELSE st.by_market[m]],
             metas |-> Append(st.metas, RequestMeta(req)),
             updates |-> updates,
             q |-> [k \in DOMAIN st.q \cup {key} |-> IF k = key THEN oid ELSE st.q[k]],
             qm |-> [k \in DOMAIN st.qm \cup {key} |->
                       IF k = key THEN [ts |-> now, px |-> req.price] ELSE st.qm[k]]]

\* the two requests of one on_market call, bid first
MakerRequests(market_id, ext) ==
    LET tob == StateTob(market_id)
        meta == MakerFair(tob, ext)
        targets == MakerTargets(tob, CurQty(positions, market_id), meta.fair)
    IN << [market_id |-> market_id, side |-> "buy", price |-> targets[1],
           size |-> settings.base_order_size, meta |-> meta],
          [market_id |-> market_id, side |-> "sell", price |-> targets[2],
           size |-> settings.base_order_size, meta |-> meta] >>

\* on_market places nothing: no TOB, a one-sided TOB, or target_bid >= target_ask
MakerIdle(market_id, reqs) ==
    LET tob == StateTob(market_id)
    IN \/ tob = NoTob
       \/ tob.best_bid = NoPrice \/ tob.best_ask = NoPrice
       \/ reqs[1].price >= reqs[2].price

market_making_on_market(market_id, ext) ==
    \E reqs \in { IF HasMark(StateTob(market_id)) /\ StateTob(market_id).best_bid # NoPrice
                      /\ StateTob(market_id).best_ask # NoPrice
                   THEN MakerRequests(market_id, ext) ELSE <<>> } :
    IF MakerIdle(market_id, reqs)
    THEN UNCHANGED <<broker_vars, broker_hist, app_vars, maker_vars>>
    ELSE LET st0 == [orders |-> orders, by_market |-> by_market,
                     metas |-> _meta_by_order_id, updates |-> {},
                     q |-> IF market_id \in DOMAIN _quotes THEN _quotes[market_id] ELSE <<>>,
                     qm |-> IF market_id \in DOMAIN _quote_meta
                            THEN _quote_meta[market_id] ELSE <<>>]
             st1 == _ensure_quote(st0, reqs[1], RiskOf(reqs[1]) = "ok")
             st2 == _ensure_quote(st1, reqs[2], RiskOf(reqs[2]) = "ok")
         IN /\ orders' = st2.orders
            /\ by_market' = st2.by_market
            /\ _meta_by_order_id' = st2.metas
            /\ store_updates' = st2.updates
            /\ fills' = {}
            /\ _quotes' = [m \in DOMAIN _quotes \cup {market_id} |->
                             IF m = market_id THEN st2.q ELSE _quotes[m]]
            /\ _quote_meta' = [m \in DOMAIN _quote_meta \cup {market_id} |->
                                 IF m = market_id THEN st2.qm ELSE _quote_meta[m]]
            /\ h_check' = NoCheck
            /\ UNCHANGED <<fill_model, min_rest_secs, now, last_tob, store_fills, broker_hist,
                           settings, state_tob, positions, h_cash, h_applied, pos_snapshots,
                           last_trade_ts, odds>>

----------------------------------------------------------------------------
(* Market maker quoting one market of a paper session *)

\* orders the market maker places in one run
MaxMakerOrders == 4
MakerMarket == "m1"
\* books on and off the tick grid, in the middle and at both ends of the price range,
\* and a one-sided book
MakerBooks ==
    { TopOfBook(9980, 10020), TopOfBook(9940, 9980), TopOfBook(10, 20),
      TopOfBook(19970, 19990), TopOfBook(NoPrice, 10020) }
\* <<settings, ExternalOdds of the provider>> of a run
MakerConfigs ==
    { <<DefaultSettings, ExternalOdds(src)>> : src \in OddsSources }
    \cup { <<[DefaultSettings EXCEPT !.max_pos_per_market = 20], ExternalOdds("mock")>>,
           <<[DefaultSettings EXCEPT !.disallow_mock_data = TRUE], ExternalOdds("odds_api")>>,
           <<[DefaultSettings EXCEPT !.max_feed_lag_secs = 0, !.mm_min_quote_life_secs = 1],
             ExternalOdds("mock")>> }

MakerInit ==
    /\ fill_model = "on_book_cross"
    /\ min_rest_secs = 0
    /\ now = 0
    /\ orders = <<>>
    /\ by_market = <<>>
    /\ last_tob = <<>>
    /\ fills = {}
    /\ store_fills = EmptyBag
    /\ store_updates = {}
    /\ _meta_by_order_id = <<>>
    /\ h_seen = {}
    /\ h_placed = {}
    /\ h_call = "none"
    /\ \E cfg \in MakerConfigs : settings = cfg[1] /\ odds = cfg[2]
    /\ state_tob = <<>>
    /\ positions = <<>>
    /\ h_cash = <<>>
    /\ h_applied = 0
    /\ h_check = NoCheck
    /\ pos_snapshots = <<>>
    /\ last_trade_ts = <<>>
    /\ mode = "live"
    /\ tape = <<>>
    /\ tape_pos = 0
    /\ bt_pc = "sleep"
    /\ h_live_final = <<>>
    /\ _quotes = <<>>
    /\ _quote_meta = <<>>
    /\ h_iter = <<>>
    /\ SideInit

MakerBookStep ==
    /\ \E tob \in MakerBooks : handle_book_event(MakerMarket, tob, now)
    /\ UNCHANGED <<replay_vars, maker_vars, h_iter, side_vars>>

\* one strategy_loop round of the market maker
MakerStep ==
    /\ Len(orders) + 2 <= MaxMakerOrders
    /\ market_making_on_market(MakerMarket, odds)
    /\ UNCHANGED <<replay_vars, h_iter, side_vars>>

MakerNext ==
    \/ MakerBookStep
    \/ MakerStep
    \/ TickStep

SpecMaker == MakerInit /\ [][MakerNext]_vars

----------------------------------------------------------------------------
(* Live paper session recorded on the tape, then run_backtest over the tape *)

\* tape rows a live session records
MaxTape == 3
ReplayMarket == "m1"
ReplayBooks == { TopOfBook(9994, 9997), TopOfBook(9997, 10000), TopOfBook(10600, 10603) }
\* seconds between the end of the live session and the start of the backtest
ReplayGaps == {0, 6}

TapeRow(ts, market_id, tob) == [ts |-> ts, market_id |-> market_id, tob |-> tob]

\* the feed delivers a book: it is written to the tape and handled
LiveBookEvent ==
    /\ mode = "live"
    /\ Len(tape) < MaxTape
    /\ \E tob \in ReplayBooks :
          /\ tape' = Append(tape, TapeRow(now, ReplayMarket, tob))
          /\ handle_book_event(ReplayMarket, tob, now)
    /\ UNCHANGED <<mode, tape_pos, bt_pc, h_live_final, maker_vars, h_iter, side_vars>>

\* one round of strategy_loop over the ranked markets
LiveStrategy ==
    /\ mode = "live"
    /\ cross_venue_on_market(ReplayMarket)
    /\ UNCHANGED <<replay_vars, maker_vars, h_iter, side_vars>>

LiveSnapshot ==
    /\ mode = "live"
    /\ _persist_snapshots
    /\ UNCHANGED <<replay_vars, maker_vars, h_iter, side_vars>>

LiveTick ==
    /\ mode = "live"
    /\ Tick
    /\ UNCHANGED <<broker_hist, app_vars, replay_vars, maker_vars, h_iter, side_vars>>

\* rehydration that stamps every loaded position as opened at the restart
Rehydrated_AlwaysStamped(rows, t) ==
    [m \in { x \in DOMAIN rows : ~(rows[x].position = 0 /\ rows[x].realized_pnl = Zero) } |->
        [event_id |-> rows[m].event_id, qty |-> rows[m].position,
         avg_price |-> rows[m].avg_price, realized_pnl |-> rows[m].realized_pnl,
         last_mark |-> rows[m].mark_price, opened_ts |-> t]]

\* rehydration that loads open positions only
Rehydrated_OpenOnly(rows, t) ==
    [m \in { x \in DOMAIN rows : rows[x].position # 0 } |->
        [event_id |-> rows[m].event_id, qty |-> rows[m].position,
         avg_price |-> rows[m].avg_price, realized_pnl |-> rows[m].realized_pnl,
         last_mark |-> rows[m].mark_price, opened_ts |-> t]]

\* _maybe_init_paper_portfolio_from_store: positions from the latest snapshot rows
Rehydrated(rows, t) ==
    [m \in { x \in DOMAIN rows : ~(rows[x].position = 0 /\ rows[x].realized_pnl = Zero) } |->
        [event_id |-> rows[m].event_id, qty |-> rows[m].position,
         avg_price |-> rows[m].avg_price, realized_pnl |-> rows[m].realized_pnl,
         last_mark |-> rows[m].mark_price,
         opened_ts |-> IF rows[m].position # 0 THEN t ELSE 0]]

\* the live session ends; run_backtest starts later on the same store and settings
StartBacktest ==
    /\ mode = "live"
    /\ h_live_final' = positions
    /\ mode' = "backtest"
    /\ tape_pos' = 0
    /\ bt_pc' = "sleep"
    /\ \E gap \in ReplayGaps :
          /\ now' = now + gap
          /\ positions' = Rehydrated(pos_snapshots, now + gap)
    /\ orders' = <<>>
    /\ by_market' = <<>>
    /\ last_tob' = <<>>
    /\ fills' = {}
    /\ store_updates' = {}
    /\ state_tob' = <<>>
    /\ last_trade_ts' = <<>>
    /\ h_check' = NoCheck
    /\ _meta_by_order_id' = <<>>
    /\ UNCHANGED <<maker_vars, h_iter, side_vars>>
    /\ UNCHANGED <<fill_model, min_rest_secs, store_fills, broker_hist, settings, h_cash, h_applied,
                   pos_snapshots, tape>>

\* asyncio.sleep(dt / speed) before a tape row, dt the gap to the row before it
BacktestSleep ==
    /\ mode = "backtest" /\ bt_pc = "sleep" /\ tape_pos < Len(tape)
    /\ \E d \in IF tape_pos = 0 THEN {0}
                ELSE {0, tape[tape_pos + 1].ts - tape[tape_pos].ts} :
          now' = now + d
    /\ bt_pc' = "event"
    /\ fills' = {}
    /\ store_updates' = {}
    /\ UNCHANGED <<fill_model, min_rest_secs, _meta_by_order_id, orders, by_market, last_tob, store_fills,
                   broker_hist, app_vars, mode, tape, tape_pos, h_live_final, maker_vars,
                   h_iter, side_vars>>

\* _payload_to_event and _handle_feed_event for the next tape row
BacktestEvent ==
    /\ mode = "backtest" /\ bt_pc = "event"
    /\ LET row == tape[tape_pos + 1]
       IN handle_book_event(row.market_id, row.tob, row.ts)
    /\ bt_pc' = "strategies"
    /\ UNCHANGED <<mode, tape, tape_pos, h_live_final, maker_vars, h_iter, side_vars>>

BacktestStrategies ==
    /\ mode = "backtest" /\ bt_pc = "strategies"
    /\ cross_venue_on_market(tape[tape_pos + 1].market_id)
    /\ bt_pc' = "snapshots"
    /\ UNCHANGED <<mode, tape, tape_pos, h_live_final, maker_vars, h_iter, side_vars>>

BacktestSnapshots ==
    /\ mode = "backtest" /\ bt_pc = "snapshots"
    /\ _persist_snapshots
    /\ bt_pc' = "sleep"
    /\ tape_pos' = tape_pos + 1
    /\ UNCHANGED <<mode, tape, h_live_final, maker_vars, h_iter, side_vars>>

BacktestDone ==
    /\ mode = "backtest" /\ bt_pc = "sleep" /\ tape_pos = Len(tape)
    /\ mode' = "done"
    /\ UNCHANGED <<broker_vars, broker_hist, app_vars, tape, tape_pos, bt_pc, h_live_final,
                   maker_vars, h_iter, side_vars>>

ReplayInit ==
    /\ fill_model = "on_book_cross"
    /\ min_rest_secs = 0
    /\ now = 0
    /\ orders = <<>>
    /\ by_market = <<>>
    /\ last_tob = <<>>
    /\ fills = {}
    /\ store_fills = EmptyBag
    /\ store_updates = {}
    /\ _meta_by_order_id = <<>>
    /\ h_seen = {}
    /\ h_placed = {}
    /\ h_call = "none"
    /\ settings = DefaultSettings
    /\ state_tob = <<>>
    /\ positions = <<>>
    /\ h_cash = <<>>
    /\ h_applied = 0
    /\ h_check = NoCheck
    /\ pos_snapshots = <<>>
    /\ last_trade_ts = <<>>
    /\ mode = "live"
    /\ tape = <<>>
    /\ tape_pos = 0
    /\ bt_pc = "sleep"
    /\ h_live_final = <<>>
    /\ _quotes = <<>>
    /\ _quote_meta = <<>>
    /\ odds = DefaultOdds
    /\ h_iter = <<>>
    /\ SideInit

ReplayNext ==
    \/ LiveBookEvent
    \/ LiveStrategy
    \/ LiveSnapshot
    \/ LiveTick
    \/ StartBacktest
    \/ BacktestSleep
    \/ BacktestEvent
    \/ BacktestStrategies
    \/ BacktestSnapshots
    \/ BacktestDone

SpecReplay == ReplayInit /\ [][ReplayNext]_vars

----------------------------------------------------------------------------
(* RiskEngine alone: pre_trade_check applied to any order, TOB and portfolio *)

\* apply_fill calls that build the portfolio handed to pre_trade_check
MaxRiskFills == 2
RiskFillInputs ==
    { [order_id |-> 1, market_id |-> "m1", side |-> "buy", price |-> 10003, size |-> z] :
        z \in {1, 2} }
    \cup { [order_id |-> 1, market_id |-> "m1", side |-> "sell", price |-> 9997, size |-> 2],
           [order_id |-> 1, market_id |-> "m2", side |-> "buy", price |-> 10000, size |-> 1] }

\* Settings with the kill switch and the open-positions cap on or off, and the other
\* limits either all at their defaults or all tight enough to fail
RiskSettings ==
    { [DefaultSettings EXCEPT !.kill_switch = k, !.max_open_positions = o,
                              !.max_pos_per_market = IF tight THEN 2 ELSE @,
                              !.max_event_exposure = IF tight THEN 25000 ELSE @,
                              !.daily_loss_limit = IF tight THEN 2 ELSE @,
                              !.max_feed_lag_secs = IF tight THEN 0 ELSE @,
                              !.max_spread = IF tight THEN 3 ELSE @] :
        k \in BOOLEAN, o \in {0, 1}, tight \in BOOLEAN }

RiskRequests ==
    { OrderRequest("m1", s, 10000, z) : s \in Sides, z \in {0, 1, 2} }
    \cup { OrderRequest("m1", "buy", PriceOne + 1, z) : z \in {0, 1} }
    \cup { OrderRequest("m2", s, 10000, 1) : s \in Sides }
\* tob argument: None, two-sided, crossed, one-sided
RiskTobs ==
    { NoTob, StampedTob(TopOfBook(9997, 10003), 0), StampedTob(TopOfBook(10003, 9997), 0),
      StampedTob(TopOfBook(NoPrice, 10003), 0) }
\* time.time() read by circuit_ok
RiskTimes == {0, 1}

RiskInit ==
    /\ fill_model = "on_book_cross"
    /\ min_rest_secs = 0
    /\ now = 0
    /\ orders = <<>>
    /\ by_market = <<>>
    /\ last_tob = <<>>
    /\ fills = {}
    /\ store_fills = EmptyBag
    /\ store_updates = {}
    /\ _meta_by_order_id = <<>>
    /\ h_seen = {}
    /\ h_placed = {}
    /\ h_call = "none"
    /\ settings \in RiskSettings
    /\ state_tob = <<>>
    /\ positions = <<>>
    /\ h_cash = <<>>
    /\ h_applied = 0
    /\ h_check = NoCheck
    /\ pos_snapshots = <<>>
    /\ last_trade_ts = <<>>
    /\ mode = "live"
    /\ tape = <<>>
    /\ tape_pos = 0
    /\ bt_pc = "sleep"
    /\ h_live_final = <<>>
    /\ _quotes = <<>>
    /\ _quote_meta = <<>>
    /\ odds = DefaultOdds
    /\ h_iter = <<>>
    /\ SideInit

RiskFillStep ==
    /\ h_applied < MaxRiskFills
    /\ \E fill \in RiskFillInputs : _apply_fills({fill})
    /\ h_check' = NoCheck
    /\ UNCHANGED <<broker_vars, broker_hist, settings, state_tob, pos_snapshots,
                   last_trade_ts, replay_vars, maker_vars, h_iter, side_vars>>

\* one pre_trade_check call; its arguments and its result are recorded
PreTradeCheckStep ==
    /\ \E req \in RiskRequests, tob \in RiskTobs, t \in RiskTimes :
          LET cur_qty == CurQty(positions, req.market_id)
          IN h_check' =
               [reduce_only |-> is_reduce_only(cur_qty,
                                               cur_qty + SignedQty(req.side, req.size)),
                reason |-> pre_trade_check(req.market_id, EventOf(req.market_id), req.side,
                                           req.price, req.size, tob, positions, t),
                req |-> req, tob |-> tob, t |-> t]
    /\ UNCHANGED <<broker_vars, broker_hist, settings, state_tob, positions, h_cash,
                   h_applied, pos_snapshots, last_trade_ts, replay_vars, maker_vars,
                   h_iter, side_vars>>

RiskNext ==
    \/ RiskFillStep
    \/ PreTradeCheckStep

SpecRisk == RiskInit /\ [][RiskNext]_vars

----------------------------------------------------------------------------
(* Paper trader restarted on its own store: fills, snapshots and rehydration *)

\* run_paper_trader started again: a new Portfolio and MarketState, the positions
\* taken from the latest snapshot rows at the wall clock of the restart
RestartStep ==
    /\ positions' = Rehydrated(pos_snapshots, now)
    /\ state_tob' = <<>>
    /\ last_trade_ts' = <<>>
    /\ h_check' = NoCheck
    /\ UNCHANGED <<broker_vars, broker_hist, settings, h_cash, h_applied, pos_snapshots,
                   replay_vars, maker_vars, h_iter, side_vars>>

RestartNext ==
    \/ ApplyFillStep
    \/ SnapshotStep
    \/ TickStep
    \/ RestartStep

SpecRestart == PortfolioInit /\ [][RestartNext]_vars

----------------------------------------------------------------------------
(* SqliteStore tape: insert_tape and iter_tape *)

\* rows in the tape table in one run
MaxTapeRows == 4
\* start_ts / end_ts = None
NoTs == -1
TapeTimes == {0, 1, 2}
TapeMarkets == {"m1"}

\* WHERE ts >= start_ts AND ts <= end_ts, each test only for a bound that is given
InTapeRange(row, start_ts, end_ts) ==
    /\ (start_ts # NoTs => row.ts >= start_ts)
    /\ (end_ts # NoTs => row.ts <= end_ts)

\* an ordering by id alone
TapeOrder_ById(table, i, j) == i < j

\* ORDER BY ts ASC, id ASC; the id is the AUTOINCREMENT key, the index in the table
TapeOrder(table, i, j) ==
    \/ table[i].ts < table[j].ts
    \/ (table[i].ts = table[j].ts /\ i < j)

RECURSIVE TapeSorted(_, _)
\* the ids of the set ids in the order of TapeOrder
TapeSorted(table, ids) ==
    IF ids = {} THEN <<>>
    ELSE LET first == CHOOSE i \in ids : \A j \in ids \ {i} : TapeOrder(table, i, j)
         IN <<first>> \o TapeSorted(table, ids \ {first})

\* the ids of the rows iter_tape(start_ts, end_ts) yields, in the order it yields them
iter_tape(table, start_ts, end_ts) ==
    TapeSorted(table, { i \in 1..Len(table) : InTapeRange(table[i], start_ts, end_ts) })

\* insert_tape(ts, market_id, "tob", payload): one more row, with the next id
InsertTapeStep ==
    /\ Len(tape) < MaxTapeRows
    /\ \E ts \in TapeTimes, market_id \in TapeMarkets :
          tape' = Append(tape, TapeRow(ts, market_id, TopOfBook(9997, 10000)))
    /\ UNCHANGED <<broker_vars, broker_hist, app_vars, mode, tape_pos, bt_pc, h_live_final,
                   maker_vars, h_iter, side_vars>>

\* list(iter_tape(start_ts, end_ts)): the table read, the bounds and the rows yielded
IterTapeStep ==
    /\ \E start_ts \in TapeTimes \cup {NoTs}, end_ts \in TapeTimes \cup {NoTs} :
          h_iter' = [table |-> tape, start_ts |-> start_ts, end_ts |-> end_ts,
                     ids |-> iter_tape(tape, start_ts, end_ts),
                     rows |-> [k \in 1..Len(iter_tape(tape, start_ts, end_ts)) |->
                                 tape[iter_tape(tape, start_ts, end_ts)[k]]]]
    /\ UNCHANGED <<broker_vars, broker_hist, app_vars, replay_vars, maker_vars, side_vars>>

TapeNext ==
    \/ InsertTapeStep
    \/ IterTapeStep

SpecTape == PortfolioInit /\ [][TapeNext]_vars

----------------------------------------------------------------------------
(* PolymarketGammaPollStream: the polling feed *)

\* iterations of the polling loop in one run
MaxPolls == 3
\* lists market_ids_provider() returns; the provider names each market once
WantLists == { <<>>, <<"m1">>, <<"m1", "m2">> }
\* <<bestBid, bestAsk>> of a market in a response; NoPrice is a missing or unparsable value
GammaQuotes == { <<9980, 10020>>, <<9980, 10040>>, <<NoPrice, 10020>> }
\* by_id of a response: the markets it holds and their quotes
GammaResponses ==
    { <<>> } \cup { ("m1" :> q) : q \in GammaQuotes }
             \cup { ("m1" :> q) @@ ("m2" :> <<9940, 9980>>) : q \in GammaQuotes }
\* _last.get(market_id) of a market not observed before
NoPair == <<>>

\* the feed yields an event for a changed quote only
Yields_OnChangeOnly(prev, cur) == prev # cur

\* yield BookEvent(...): not conditional on the quote having changed
Yields(prev, cur) == TRUE

BookEvent(market_id, tob, ts) ==
    [market_id |-> market_id, tob |-> [best_bid |-> tob.best_bid, best_ask |-> tob.best_ask,
                                       ts |-> ts]]

\* await asyncio.sleep(self._poll), _poll >= 0.25: the clock moves on; then the wanted
\* markets are read from the provider, and an empty list starts the next iteration
GammaWake ==
    /\ poll.pc = "sleep"
    /\ poll.polls < MaxPolls
    /\ now' = now + 1
    /\ \E want \in WantLists :
          poll' = IF want = <<>>
                  THEN [poll EXCEPT !.polls = @ + 1, !.want = want]
                  ELSE [poll EXCEPT !.polls = @ + 1, !.want = want, !.pc = "fetch"]
    /\ UNCHANGED <<_last, h_events, tape>>

\* the request raises (timeout, HTTP status, bad JSON): logged, status "error"
GammaFetchFails ==
    /\ poll.pc = "fetch"
    /\ poll' = [poll EXCEPT !.pc = "sleep", !.status = "error"]
    /\ UNCHANGED <<now, _last, h_events, tape>>

\* the response arrives, by_id is built and now = time.time() is taken
GammaFetch ==
    /\ poll.pc = "fetch"
    /\ \E by_id \in GammaResponses, d \in {0, 1} :
          /\ now' = now + d
          /\ poll' = [poll EXCEPT !.pc = "emit", !.by_id = by_id, !.now = now + d, !.i = 1]
    /\ UNCHANGED <<_last, h_events, tape>>

\* one iteration of "for market_id in want"
GammaEmit ==
    /\ poll.pc = "emit"
    /\ poll.i <= Len(poll.want)
    /\ poll' = [poll EXCEPT !.i = @ + 1]
    /\ LET market_id == poll.want[poll.i]
       IN IF market_id \notin DOMAIN poll.by_id
          THEN UNCHANGED <<_last, h_events, tape>>
          ELSE LET cur == poll.by_id[market_id]
                   prev == IF market_id \in DOMAIN _last THEN _last[market_id] ELSE NoPair
                   tob == TopOfBook(cur[1], cur[2])
               IN /\ _last' = [m \in DOMAIN _last \cup {market_id} |->
                                  IF m = market_id THEN cur ELSE _last[m]]
                  /\ tape' = IF prev # cur
                             THEN Append(tape, TapeRow(poll.now, market_id, tob))
                             ELSE tape
                  /\ h_events' = IF Yields(prev, cur)
                                 THEN Append(h_events,
                                             BookEvent(market_id, tob, poll.now)
                                               @@ [poll |-> poll.polls])
                                 ELSE h_events
    /\ UNCHANGED now

\* the loop over want is done: upsert_runtime_status(level="ok")
GammaStatus ==
    /\ poll.pc = "emit"
    /\ poll.i > Len(poll.want)
    /\ poll' = [poll EXCEPT !.pc = "sleep", !.status = "ok"]
    /\ UNCHANGED <<now, _last, h_events, tape>>

GammaNext ==
    /\ \/ GammaWake
       \/ GammaFetchFails
       \/ GammaFetch
       \/ GammaEmit
       \/ GammaStatus
    /\ UNCHANGED <<fill_model, min_rest_secs, orders, by_market, last_tob, fills, store_fills,
                   store_updates, _meta_by_order_id, broker_hist, app_vars, mode, tape_pos,
                   bt_pc, h_live_final, maker_vars, h_iter, unwind_vars, engine_vars, ext_vars>>

SpecGamma == PortfolioInit /\ [][GammaNext]_vars

----------------------------------------------------------------------------
(* Inventory unwind: _inventory_unwind_once in the paper loop and in run_backtest *)

\* floor of the per-market throttle, seconds
MinRepeatFloor == 10
\* seconds the clock runs past Epoch in one run
MaxUnwindSecs == 10
\* orders placed in one run
MaxUnwindOrders == 3
\* tape rows replayed in one backtest
MaxUnwindEvents == 2

OpenPositions(P) == { m \in DOMAIN P : P[m].qty # 0 }

age_secs(p, t) == IF p.opened_ts <= 0 THEN 0 ELSE IMax(0, t - p.opened_ts)

IndexIn(seq, x) == CHOOSE i \in 1..Len(seq) : seq[i] = x

\* sorted(open_positions, key=age_secs, reverse=True): oldest first, ties in dict order
OldestFirst(open_seq, P, t) ==
    CHOOSE s \in Orderings({ open_seq[i] : i \in 1..Len(open_seq) }) :
        \A i, j \in 1..Len(s) :
            i < j => \/ age_secs(P[s[i]], t) > age_secs(P[s[j]], t)
                     \/ /\ age_secs(P[s[i]], t) = age_secs(P[s[j]], t)
                        /\ IndexIn(open_seq, s[i]) < IndexIn(open_seq, s[j])

\* Candidates without the positions that are too old
Candidates_CapOnly(open_seq, P, t) ==
    LET max_open == settings.max_open_positions
        open_count == Len(open_seq)
        rest == OldestFirst(open_seq, P, t)
        capped == IF max_open > 0 /\ open_count > max_open
                  THEN SubSeq(rest, 1, Min(open_count - max_open, Len(rest)))
                  ELSE <<>>
    IN [i \in 1..Len(capped) |-> <<capped[i], "cap">>]

\* candidates <<market_id, reason>>: positions too old, then the oldest of the others
\* while the number of open positions exceeds the cap
Candidates(open_seq, P, t) ==
    LET max_age == settings.max_pos_age_secs
        max_open == settings.max_open_positions
        open_count == Len(open_seq)
        IsAged(m) == age_secs(P[m], t) >= max_age
        aged == IF max_age > 0 THEN SelectSeq(open_seq, IsAged) ELSE <<>>
        NotAged(m) == \A i \in 1..Len(aged) : aged[i] # m
        rest == SelectSeq(OldestFirst(open_seq, P, t), NotAged)
        capped == IF max_open > 0 /\ open_count > max_open
                  THEN SubSeq(rest, 1, Min(open_count - max_open, Len(rest)))
                  ELSE <<>>
    IN [i \in 1..Len(aged) |-> <<aged[i], "age">>]
       \o [i \in 1..Len(capped) |-> <<capped[i], "cap">>]

\* max(10.0, unwind_interval_secs)
min_repeat == IMax(MinRepeatFloor, settings.unwind_interval_secs)

\* the crossing order that flattens qty: sell at best_bid (long), buy at best_ask (short)
FlattenRequest(market_id, qty, tob, reason) ==
    [market_id |-> market_id,
     side |-> IF qty > 0 THEN "sell" ELSE "buy",
     price |-> IF qty > 0 THEN tob.best_bid ELSE tob.best_ask,
     size |-> Abs(qty),
     meta |-> [strategy |-> "risk_inventory_unwind", reason |-> reason]]

Put(f, k, v) == [x \in DOMAIN f \cup {k} |-> IF x = k THEN v ELSE f[x]]

\* broker.cancel_all_market(market_id) on the orders ords
CancelledAll(ords, ids) ==
    [oid \in DOMAIN ords |->
        IF oid \in ids /\ ords[oid].status = "open"
        THEN [ords[oid] EXCEPT !.status = "cancelled"]
        ELSE ords[oid]]

\* the locals of _inventory_unwind_once and the broker's books before its loop
UnwindStart(last) ==
    [orders |-> orders, by_market |-> by_market, metas |-> _meta_by_order_id,
     last |-> last, did |-> 0, checked |-> <<>>, called |-> FALSE]

\* the guard of PaperUnwind admits every cycle of the runs of SpecAging
AgingOrdersWithinBound == Len(orders) < MaxUnwindOrders

\* one pass of the loop body that cancels the market's orders before the risk check
UnwindOne_CancelFirst(st, cand, tobs, P, t) ==
    LET m == cand[1]
        tob == IF m \in DOMAIN tobs THEN tobs[m] ELSE NoTob
        qty == P[m].qty
        prev == IF m \in DOMAIN st.last THEN st.last[m] ELSE 0
        req == FlattenRequest(m, qty, tob, cand[2])
        verdict == pre_trade_check(m, P[m].event_id, req.side, req.price, req.size,
                                   tob, P, t)
        ids == IF m \in DOMAIN st.by_market THEN st.by_market[m] ELSE {}
    IN IF st.did >= settings.unwind_max_markets_per_cycle THEN st
       ELSE IF (t - prev) < min_repeat THEN st
       ELSE IF tob = NoTob \/ tob.best_bid = NoPrice \/ tob.best_ask = NoPrice THEN st
       ELSE IF qty = 0 THEN st
       ELSE IF verdict # "ok"
       THEN [st EXCEPT !.orders = CancelledAll(st.orders, ids),
                       !.checked = Put(@, m, verdict), !.called = TRUE]
       ELSE [orders |-> Append(CancelledAll(st.orders, ids), Order(req, t)),
             by_market |-> Put(st.by_market, m, ids \cup {Len(st.orders) + 1}),
             metas |-> Append(st.metas, req.meta),
             last |-> Put(st.last, m, t),
             did |-> st.did + 1,
             checked |-> Put(st.checked, m, "ok"),
             called |-> TRUE]

\* one pass of the loop body of _inventory_unwind_once, for the candidate cand
UnwindOne(st, cand, tobs, P, t) ==
    LET m == cand[1]
        tob == IF m \in DOMAIN tobs THEN tobs[m] ELSE NoTob
        qty == P[m].qty
        prev == IF m \in DOMAIN st.last THEN st.last[m] ELSE 0
        req == FlattenRequest(m, qty, tob, cand[2])
        verdict == pre_trade_check(m, P[m].event_id, req.side, req.price, req.size,
                                   tob, P, t)
        ids == IF m \in DOMAIN st.by_market THEN st.by_market[m] ELSE {}
    IN IF st.did >= settings.unwind_max_markets_per_cycle THEN st
       ELSE IF (t - prev) < min_repeat THEN st
       ELSE IF tob = NoTob \/ tob.best_bid = NoPrice \/ tob.best_ask = NoPrice THEN st
       ELSE IF qty = 0 THEN st
       ELSE IF verdict # "ok" THEN [st EXCEPT !.checked = Put(@, m, verdict)]
       ELSE [orders |-> Append(CancelledAll(st.orders, ids), Order(req, t)),
             by_market |-> Put(st.by_market, m, ids \cup {Len(st.orders) + 1}),
             metas |-> Append(st.metas, req.meta),
             last |-> Put(st.last, m, t),
             did |-> st.did + 1,
             checked |-> Put(st.checked, m, "ok"),
             called |-> TRUE]

RECURSIVE UnwindAll(_, _, _, _, _)
UnwindAll(st, cands, tobs, P, t) ==
    IF cands = <<>> THEN st
    ELSE UnwindAll(UnwindOne(st, Head(cands), tobs, P, t), Tail(cands), tobs, P, t)

\* _inventory_unwind_once(ctx, last_unwind_ts=last): the locals when it returns,
\* ctx.portfolio.positions iterated in the order open_seq
UnwindOutcome(last, open_seq) ==
    IF open_seq = <<>> THEN UnwindStart(last)
    ELSE UnwindAll(UnwindStart(last), Candidates(open_seq, positions, now),
                   state_tob, positions, now)

\* what _inventory_unwind_once leaves in the broker and the store
_inventory_unwind_once(st) ==
    /\ orders' = st.orders
    /\ by_market' = st.by_market
    /\ _meta_by_order_id' = st.metas
    /\ fills' = IF st.called THEN {} ELSE fills
    /\ store_updates' = IF st.called THEN {} ELSE store_updates
    /\ h_unwind' = st.checked
    /\ h_check' = NoCheck
    /\ UNCHANGED <<fill_model, min_rest_secs, now, last_tob, store_fills, broker_hist,
                   settings, state_tob, positions, h_cash, h_applied, pos_snapshots,
                   last_trade_ts>>

\* settings of the runs: positions older than a second are flattened, with a feed
\* lag limit that admits a recorded tape and with the default one; at most one open
\* position is kept
UnwindSettings ==
    { [DefaultSettings EXCEPT !.max_pos_age_secs = 1, !.unwind_interval_secs = 1,
                              !.max_feed_lag_secs = 1000],
      [DefaultSettings EXCEPT !.max_pos_age_secs = 1, !.unwind_interval_secs = 1],
      [DefaultSettings EXCEPT !.max_open_positions = 1, !.max_feed_lag_secs = 1000,
                              !.unwind_max_markets_per_cycle = 1] }
\* positions a restart loads from the store
UnwindSnapshots ==
    { <<>>,
      [m \in {"m1", "m2"} |->
         [event_id |-> "e1", position |-> IF m = "m1" THEN 2 ELSE -1,
          avg_price |-> RInt(10000), mark_price |-> RInt(10000), realized_pnl |-> Zero]] }
\* orders of the strategies
UnwindRequests ==
    { OrderRequest("m1", "buy", 10003, 2) }
UnwindBooks == { TopOfBook(9997, 10003) }
\* seconds between two steps of the engine
UnwindTicks == {5, 10}

UnwindSpecInit ==
    /\ fill_model = "on_book_cross"
    /\ min_rest_secs = 0
    /\ now = Epoch
    /\ orders = <<>>
    /\ by_market = <<>>
    /\ last_tob = <<>>
    /\ fills = {}
    /\ store_fills = EmptyBag
    /\ store_updates = {}
    /\ _meta_by_order_id = <<>>
    /\ h_seen = {}
    /\ h_placed = {}
    /\ h_call = "none"
    /\ settings \in UnwindSettings
    /\ state_tob = <<>>
    /\ \E rows \in UnwindSnapshots :
          /\ pos_snapshots = rows
          /\ positions = Rehydrated(rows, Epoch)
    /\ h_cash = <<>>
    /\ h_applied = 0
    /\ h_check = NoCheck
    /\ last_trade_ts = <<>>
    /\ mode \in {"live", "backtest"}
    /\ tape = <<>>
    /\ tape_pos = 0
    /\ bt_pc = "sleep"
    /\ h_live_final = <<>>
    /\ _quotes = <<>>
    /\ _quote_meta = <<>>
    /\ odds = DefaultOdds
    /\ h_iter = <<>>
    /\ FeedInit
    /\ last_unwind_ts = <<>>
    /\ unwind_wake = Epoch
    /\ h_unwind = <<>>
    /\ EngineInit
    /\ ExtInit

\* feed_loop: a BookEvent of the live feed
UnwindBookEvent ==
    /\ mode = "live"
    /\ \E m \in Markets, tob \in UnwindBooks : handle_book_event(m, tob, now)
    /\ UNCHANGED <<replay_vars, maker_vars, h_iter, feed_vars, unwind_vars, engine_vars, ext_vars>>

\* strategy_loop: an order of a strategy, placed if the risk check accepts it
UnwindStrategy ==
    /\ mode = "live"
    /\ Len(orders) < MaxUnwindOrders
    /\ \E req \in UnwindRequests : GateAndPlace(req)
    /\ UNCHANGED <<last_trade_ts, replay_vars, maker_vars, h_iter, feed_vars, unwind_vars,
                   engine_vars, ext_vars>>

\* unwind_loop: one cycle with the loop's own last_unwind_ts, then
\* asyncio.sleep(max(1.0, interval))
PaperUnwind ==
    /\ mode = "live"
    /\ settings.max_open_positions > 0 \/ settings.max_pos_age_secs > 0
    /\ now >= unwind_wake
    /\ \E open_seq \in Orderings(OpenPositions(positions)) :
          LET st == UnwindOutcome(last_unwind_ts, open_seq)
          IN /\ Len(st.orders) <= MaxUnwindOrders
             /\ _inventory_unwind_once(st)
             /\ last_unwind_ts' = st.last
    /\ unwind_wake' = now + IMax(1, settings.unwind_interval_secs)
    /\ UNCHANGED <<replay_vars, maker_vars, h_iter, feed_vars, engine_vars, ext_vars>>

UnwindTick ==
    /\ mode = "live"
    /\ \E d \in UnwindTicks :
          /\ now + d <= Epoch + MaxUnwindSecs
          /\ now' = now + d
    /\ fills' = {}
    /\ store_updates' = {}
    /\ UNCHANGED <<fill_model, min_rest_secs, _meta_by_order_id, orders, by_market, last_tob,
                   store_fills, broker_hist, app_vars, replay_vars, maker_vars, h_iter,
                   side_vars>>

\* run_backtest: asyncio.sleep(dt / speed) before a tape row, rows one second apart
UnwindBtSleep ==
    /\ mode = "backtest" /\ bt_pc = "sleep" /\ tape_pos < MaxUnwindEvents
    /\ \E d \in IF tape_pos = 0 THEN {0} ELSE {0, 1} : now' = now + d
    /\ bt_pc' = "event"
    /\ fills' = {}
    /\ store_updates' = {}
    /\ UNCHANGED <<fill_model, min_rest_secs, _meta_by_order_id, orders, by_market, last_tob,
                   store_fills, broker_hist, app_vars, mode, tape, tape_pos, h_live_final,
                   maker_vars, h_iter, side_vars>>

\* _handle_feed_event for the next tape row, its ts the time it was recorded at
UnwindBtEvent ==
    /\ mode = "backtest" /\ bt_pc = "event"
    /\ \E m \in Markets, tob \in UnwindBooks : handle_book_event(m, tob, tape_pos + 1)
    /\ bt_pc' = "strategies"
    /\ UNCHANGED <<mode, tape, tape_pos, h_live_final, maker_vars, h_iter, side_vars>>

\* the strategies place an order through the risk check, or none
UnwindBtStrategies ==
    /\ mode = "backtest" /\ bt_pc = "strategies"
    /\ \/ /\ Len(orders) < MaxUnwindOrders
          /\ \E req \in UnwindRequests : GateAndPlace(req)
       \/ UNCHANGED <<broker_vars, broker_hist, app_vars>>
    /\ bt_pc' = "unwind"
    /\ UNCHANGED <<last_trade_ts, mode, tape, tape_pos, h_live_final, maker_vars, h_iter,
                   side_vars>>

\* await _inventory_unwind_once(ctx): last_unwind_ts is a new dict in every call
BacktestUnwind ==
    /\ mode = "backtest" /\ bt_pc = "unwind"
    /\ \E open_seq \in Orderings(OpenPositions(positions)) :
          LET st == UnwindOutcome(<<>>, open_seq)
          IN /\ Len(st.orders) <= MaxUnwindOrders
             /\ _inventory_unwind_once(st)
    /\ bt_pc' = "snapshots"
    /\ UNCHANGED <<mode, tape, tape_pos, h_live_final, maker_vars, h_iter, feed_vars,
                   last_unwind_ts, unwind_wake, engine_vars, ext_vars>>

UnwindBtSnapshots ==
    /\ mode = "backtest" /\ bt_pc = "snapshots"
    /\ _persist_snapshots
    /\ bt_pc' = "sleep"
    /\ tape_pos' = tape_pos + 1
    /\ UNCHANGED <<mode, tape, h_live_final, maker_vars, h_iter, side_vars>>

UnwindNext ==
    \/ UnwindBookEvent
    \/ UnwindStrategy
    \/ PaperUnwind
    \/ UnwindTick
    \/ UnwindBtSleep
    \/ UnwindBtEvent
    \/ UnwindBtStrategies
    \/ BacktestUnwind
    \/ UnwindBtSnapshots

SpecUnwind == UnwindSpecInit /\ [][UnwindNext]_vars

----------------------------------------------------------------------------
(* The engine of run_paper_trader: five tasks on one asyncio event loop.  A   *)
(* task runs until it awaits something that is not ready: asyncio.sleep, the  *)
(* HTTP request of the discovery, a lock another task holds.  Acquiring a     *)
(* free asyncio.Lock, PaperBroker's methods (a free lock and synchronous      *)
(* sqlite calls) and MockOddsProvider.get_fair_prob never yield to the loop.  *)

\* seconds the clock runs past Epoch in one run
MaxEngineSecs == 1
\* orders placed in one run
MaxEngineOrders == 4
\* BookEvents of the feed in one run
MaxEngineEvents == 2

Tasks == {"scanner", "feed", "strategy", "snapshot", "unwind"}
NoTask == "none"

\* a lock that stays with the task when the `async with` block ends
Released_Kept(t) == t
\* the holder of SharedState.lock after the task t leaves its `async with` block
Released(t) == NoTask

\* a provider that awaits a network response
OddsFetchSuspends_Network == TRUE
\* whether `await ctx.odds.get_fair_prob(m)` yields to the event loop
OddsFetchSuspends == FALSE

MarketInfo(market_id, active, volume, end_ts) ==
    [market_id |-> market_id, event_id |-> "e1", active |-> active,
     volume_24h_usd |-> volume, liquidity_usd |-> 5000, end_ts |-> end_ts]
\* lists fetch_markets returns
ScanResponses ==
    { << MarketInfo("m1", TRUE, 30000, NoTs), MarketInfo("m2", TRUE, 20000, NoTs) >>,
      << MarketInfo("m1", FALSE, 30000, NoTs), MarketInfo("m2", TRUE, 20000, Epoch + 1) >>,
      << MarketInfo("m1", TRUE, 30000, NoTs), MarketInfo("m2", TRUE, 10000, NoTs) >> }
\* books of the mock feed: spreads of 0.005 and 0.0052 around 0.5 and 0.4973
EngineBooks == { TopOfBook(9950, 10050), TopOfBook(9894, 9998) }
EngineSettings ==
    [DefaultSettings EXCEPT !.max_pos_age_secs = 1, !.unwind_interval_secs = 1,
                            !.market_refresh_secs = 1, !.top_n_markets = 1]

\* eligible.sort(key=(volume_24h_usd, liquidity_usd), reverse=True): a before b
ScoreBefore(a, b) ==
    \/ a.volume_24h_usd > b.volume_24h_usd
    \/ a.volume_24h_usd = b.volume_24h_usd /\ a.liquidity_usd > b.liquidity_usd

EligibleSorted(ms) ==
    LET IsEligible(m) == /\ m.active
                         /\ m.volume_24h_usd >= settings.min_24h_volume_usd
                         /\ m.liquidity_usd >= settings.min_liquidity_usd
        eligible == SelectSeq(ms, IsEligible)
        p == CHOOSE q \in Orderings(1..Len(eligible)) :
                \A i, j \in 1..Len(eligible) :
                    i < j => \/ ScoreBefore(eligible[q[i]], eligible[q[j]])
                             \/ /\ ~ScoreBefore(eligible[q[j]], eligible[q[i]])
                                /\ q[i] < q[j]
    IN [i \in 1..Len(eligible) |-> eligible[p[i]]]

\* a ranking that takes the top of all fetched markets
rank_and_filter_TopOfAll(ms) ==
    [top |-> SubSeq(ms, 1, Min(settings.top_n_markets, Len(ms))),
     eligible |-> EligibleSorted(ms)]

rank_and_filter(ms) ==
    LET eligible == EligibleSorted(ms)
    IN [top |-> SubSeq(eligible, 1, Min(settings.top_n_markets, Len(eligible))),
        eligible |-> eligible]

\* {m.market_id: m for m in eligible}
MarketsById(eligible) ==
    [id \in { eligible[i].market_id : i \in 1..Len(eligible) } |->
        eligible[CHOOSE i \in 1..Len(eligible) :
                    /\ eligible[i].market_id = id
                    /\ \A j \in 1..Len(eligible) : eligible[j].market_id = id => j <= i]]

SetPc(t, p) == task_pc' = [task_pc EXCEPT ![t] = p]
\* an operation of the task t, with the holder of SharedState.lock at that moment
Op(t, site, op) == [task |-> t, site |-> site, op |-> op, lock |-> lock]

\* `async with ctx.state.lock`: a free lock is taken without yielding; a task that
\* finds it held waits for it
Acquire(t, p) ==
    IF lock = NoTask
    THEN lock' = t /\ SetPc(t, p) /\ running' = t
    ELSE lock' = lock /\ SetPc(t, "blocked") /\ running' = NoTask

\* the task t awaits something that is not ready
Suspend(t, p) == SetPc(t, p) /\ running' = NoTask

Ready(t) ==
    CASE t = "scanner" -> \/ task_pc[t] = "fetch"
                          \/ task_pc[t] = "sleep" /\ now >= scan_wake
      [] t = "unwind" -> /\ task_pc[t] = "sleep" /\ now >= unwind_wake
                         /\ settings.max_open_positions > 0 \/ settings.max_pos_age_secs > 0
      [] t = "snapshot" -> task_pc[t] = "sleep" /\ now >= loc.snap_wake
      [] OTHER -> task_pc[t] \in {"sleep", "odds_wait"}

\* a task has ended with an exception: asyncio.gather raises it in run_paper_trader,
\* which ends, and asyncio.run cancels the other tasks
Halted == \E t \in Tasks : task_pc[t] = "crashed"

data_vars == <<broker_vars, broker_hist, app_vars, maker_vars>>
quiet_vars == <<replay_vars, h_iter, feed_vars, h_unwind, ext_vars>>

\* the event loop resumes a task whose wait is over
Resume ==
    /\ running = NoTask
    /\ ~Halted
    /\ \E t \in Tasks : Ready(t) /\ running' = t
    /\ UNCHANGED <<data_vars, quiet_vars, last_unwind_ts, unwind_wake, task_pc, lock,
                   markets, ranked_markets, scan_wake, loc, h_ops, h_eval, h_scans>>

\* time passes while every task is suspended
EngineTick ==
    /\ running = NoTask
    /\ ~Halted
    /\ now < Epoch + MaxEngineSecs
    /\ now' = now + 1
    /\ UNCHANGED <<fill_model, min_rest_secs, orders, by_market, last_tob, fills, store_fills,
                   store_updates, _meta_by_order_id, broker_hist, app_vars, maker_vars,
                   quiet_vars, last_unwind_ts, unwind_wake, engine_vars, ext_vars>>

\* `await asyncio.sleep(...)` that follows an `async with` block
GoToSleep ==
    \E t \in {"scanner", "feed"} :
        /\ running = t /\ task_pc[t] = "sleep_op"
        /\ h_ops' = h_ops \cup {Op(t, "loop", "sleep")}
        /\ Suspend(t, "sleep")
        /\ scan_wake' = IF t = "scanner" THEN now + settings.market_refresh_secs
                        ELSE scan_wake
        /\ UNCHANGED <<data_vars, quiet_vars, last_unwind_ts, unwind_wake, lock, markets,
                       ranked_markets, loc, h_eval, h_scans>>

\* feed, strategy, snapshot and unwind loops: the sleep is over, the round starts
\* with `async with state.lock`
TaskWake ==
    \E t \in {"feed", "strategy", "snapshot", "unwind"} :
        /\ running = t /\ task_pc[t] = "sleep"
        /\ Acquire(t, "copy_locked")
        /\ UNCHANGED <<data_vars, quiet_vars, last_unwind_ts, unwind_wake, markets,
                       ranked_markets, scan_wake, loc, h_ops, h_eval, h_scans>>

\* scanner_loop: `await discovery.fetch_markets(limit=500)` sends its request
ScannerStart ==
    /\ running = "scanner" /\ task_pc["scanner"] = "sleep"
    /\ Suspend("scanner", "fetch")
    /\ UNCHANGED <<data_vars, quiet_vars, last_unwind_ts, unwind_wake, lock, markets,
                   ranked_markets, scan_wake, loc, h_ops, h_eval, h_scans>>

\* the fetch, the ranking or a store write raises: `except Exception`, then the sleep
ScannerFails ==
    /\ running = "scanner" /\ task_pc["scanner"] = "fetch"
    /\ h_ops' = h_ops \cup {Op("scanner", "scanner_loop", "scan_failed"),
                            Op("scanner", "scanner_loop", "sleep")}
    /\ Suspend("scanner", "sleep")
    /\ scan_wake' = now + settings.market_refresh_secs
    /\ h_scans' = Append(h_scans, "failed")
    /\ UNCHANGED <<data_vars, quiet_vars, last_unwind_ts, unwind_wake, lock, markets,
                   ranked_markets, loc, h_eval>>

\* the fetch returns: rank_and_filter, the store writes, then `async with state.lock`
ScannerFetched ==
    /\ running = "scanner" /\ task_pc["scanner"] = "fetch"
    /\ \E ms \in ScanResponses : loc' = [loc EXCEPT !.scan = rank_and_filter(ms)]
    /\ h_ops' = h_ops \cup {Op("scanner", "scanner_loop", "store")}
    /\ Acquire("scanner", "locked")
    /\ UNCHANGED <<data_vars, quiet_vars, last_unwind_ts, unwind_wake, markets,
                   ranked_markets, scan_wake, h_eval, h_scans>>

\* state.markets = ...; state.ranked_markets = ...
ScannerUpdate ==
    /\ running = "scanner" /\ task_pc["scanner"] = "locked"
    /\ markets' = MarketsById(loc.scan.eligible)
    /\ ranked_markets' = [i \in 1..Len(loc.scan.top) |-> loc.scan.top[i].market_id]
    /\ lock' = Released("scanner")
    /\ SetPc("scanner", "sleep_op")
    /\ h_scans' = Append(h_scans, "ok")
    /\ UNCHANGED <<data_vars, quiet_vars, last_unwind_ts, unwind_wake, running, scan_wake,
                   loc, h_ops, h_eval>>

\* MockPolymarketStream.events: market_ids = list(state.ranked_markets), then a
\* sample of them in any order
FeedCopy ==
    /\ running = "feed" /\ task_pc["feed"] = "copy_locked"
    /\ \E batch \in Orderings({ ranked_markets[i] : i \in 1..Len(ranked_markets) }) :
          /\ loc' = [loc EXCEPT !.batch = batch]
          /\ SetPc("feed", IF batch = <<>> THEN "sleep_op" ELSE "emit")
    /\ lock' = Released("feed")
    /\ UNCHANGED <<data_vars, quiet_vars, last_unwind_ts, unwind_wake, running, markets,
                   ranked_markets, scan_wake, h_ops, h_eval, h_scans>>

\* the stream writes the tape row and yields a BookEvent; _handle_feed_event
\* starts with `async with ctx.state.lock`
FeedEmit ==
    /\ running = "feed" /\ task_pc["feed"] = "emit"
    /\ loc.events < MaxEngineEvents
    /\ \E tob \in EngineBooks :
          loc' = [loc EXCEPT !.ev = [market_id |-> Head(loc.batch), tob |-> tob],
                             !.batch = Tail(loc.batch), !.events = loc.events + 1]
    /\ h_ops' = h_ops \cup {Op("feed", "events", "store")}
    /\ Acquire("feed", "tob_locked")
    /\ UNCHANGED <<data_vars, quiet_vars, last_unwind_ts, unwind_wake, markets,
                   ranked_markets, scan_wake, h_eval, h_scans>>

FeedNextPc == IF loc.batch = <<>> THEN "sleep_op" ELSE "emit"

\* ctx.state.tob[ev.market_id] = ev.tob
FeedTob ==
    /\ running = "feed" /\ task_pc["feed"] = "tob_locked"
    /\ state_tob' = Put(state_tob, loc.ev.market_id, StampedTob(loc.ev.tob, now))
    /\ lock' = Released("feed")
    /\ SetPc("feed", "on_book")
    /\ UNCHANGED <<broker_vars, broker_hist, settings, positions, h_cash, h_applied, h_check,
                   pos_snapshots, last_trade_ts, maker_vars, quiet_vars, last_unwind_ts,
                   unwind_wake, running, markets, ranked_markets, scan_wake, loc, h_ops,
                   h_eval, h_scans>>

\* fills = await ctx.broker.on_book(...); `if fills: await _apply_fills(ctx, fills)`
\* starts with `async with ctx.state.lock`
FeedOnBook ==
    /\ running = "feed" /\ task_pc["feed"] = "on_book"
    /\ on_book(loc.ev.market_id, loc.ev.tob)
    /\ h_ops' = h_ops \cup {Op("feed", "_handle_feed_event", "broker")}
    /\ IF fills' # {}
       THEN Acquire("feed", "apply_locked")
       ELSE SetPc("feed", FeedNextPc) /\ UNCHANGED <<running, lock>>
    /\ UNCHANGED <<broker_hist, app_vars, maker_vars, quiet_vars, last_unwind_ts,
                   unwind_wake, markets, ranked_markets, scan_wake, loc, h_eval, h_scans>>

\* the body of _apply_fills
FeedApply ==
    /\ running = "feed" /\ task_pc["feed"] = "apply_locked"
    /\ _apply_fills(fills)
    /\ h_ops' = h_ops \cup {Op("feed", "_apply_fills", "portfolio")}
    /\ lock' = Released("feed")
    /\ SetPc("feed", FeedNextPc)
    /\ UNCHANGED <<broker_vars, broker_hist, settings, state_tob, h_check, pos_snapshots,
                   last_trade_ts, maker_vars, quiet_vars, last_unwind_ts, unwind_wake,
                   running, markets, ranked_markets, scan_wake, loc, h_eval, h_scans>>

\* strategy_loop: market_ids = list(state.ranked_markets)
StrategyCopy ==
    /\ running = "strategy" /\ task_pc["strategy"] = "copy_locked"
    /\ loc' = [loc EXCEPT !.ids = ranked_markets, !.k = 0]
    /\ lock' = Released("strategy")
    /\ SetPc("strategy", "next")
    /\ UNCHANGED <<data_vars, quiet_vars, last_unwind_ts, unwind_wake, running, markets,
                   ranked_markets, scan_wake, h_ops, h_eval, h_scans>>

\* the steps of a round for each market: _maybe_close_before_end, then on_market of
\* CrossVenueFairValueStrategy and of MarketMakingStrategy
Phases == << "close", "cross_venue", "market_making" >>
EvalMarket == loc.ids[((loc.k - 1) \div Len(Phases)) + 1]
EvalPhase == Phases[((loc.k - 1) % Len(Phases)) + 1]

\* the next step of the round starts with `async with ctx.state.lock`; after the
\* last one the loop sleeps
StrategyNext ==
    /\ running = "strategy" /\ task_pc["strategy"] = "next"
    /\ IF loc.k < Len(Phases) * Len(loc.ids)
       THEN /\ loc' = [loc EXCEPT !.k = loc.k + 1]
            /\ Acquire("strategy", "read_locked")
            /\ UNCHANGED h_ops
       ELSE /\ h_ops' = h_ops \cup {Op("strategy", "strategy_loop", "sleep")}
            /\ Suspend("strategy", "sleep")
            /\ UNCHANGED <<loc, lock>>
    /\ UNCHANGED <<data_vars, quiet_vars, last_unwind_ts, unwind_wake, markets,
                   ranked_markets, scan_wake, h_eval, h_scans>>

\* m = ctx.state.markets.get(market_id); tob = ctx.state.tob.get(market_id)
StrategyRead ==
    /\ running = "strategy" /\ task_pc["strategy"] = "read_locked"
    /\ h_eval' = [h_eval EXCEPT !["strategy"] = {EvalMarket}]
    /\ lock' = Released("strategy")
    /\ SetPc("strategy", "act")
    /\ UNCHANGED <<data_vars, quiet_vars, last_unwind_ts, unwind_wake, running, markets,
                   ranked_markets, scan_wake, loc, h_ops, h_scans>>

\* _maybe_close_before_end after its reads
close_before_end(market_id) ==
    LET m == markets[market_id]
        tob == StateTob(market_id)
        qty == CurQty(positions, market_id)
        req == [market_id |-> market_id,
                side |-> IF qty > 0 THEN "sell" ELSE "buy",
                price |-> IF qty > 0 THEN tob.best_bid ELSE tob.best_ask,
                size |-> Abs(qty),
                meta |-> [strategy |-> "risk_close_before_end"]]
    IN IF \/ m.end_ts = NoTs \/ tob = NoTob
          \/ tob.best_bid = NoPrice \/ tob.best_ask = NoPrice
          \/ qty = 0
          \/ (m.end_ts - now) > settings.stop_before_end_secs
       THEN UNCHANGED <<broker_vars, broker_hist, settings, state_tob, positions, h_cash,
                        h_applied, h_check, pos_snapshots>>
       ELSE GateAndPlace(req)

\* whether the step reaches `await ctx.odds.get_fair_prob(m)`
AsksOdds(market_id, phase) ==
    /\ market_id \in DOMAIN markets
    /\ StateTob(market_id) # NoTob
    /\ StateTob(market_id).best_bid # NoPrice /\ StateTob(market_id).best_ask # NoPrice
    /\ \/ phase = "cross_venue" /\ ~CoolingDown(market_id)
       \/ phase = "market_making" /\ ~settings.disallow_mock_data

\* the step after its reads: the odds, the risk checks and the broker calls
StrategyAct ==
    /\ running = "strategy" /\ task_pc["strategy"] \in {"act", "odds_wait"}
    /\ IF AsksOdds(EvalMarket, EvalPhase) /\ OddsFetchSuspends
          /\ task_pc["strategy"] = "act"
       THEN /\ h_ops' = h_ops \cup {Op("strategy", EvalPhase, "odds")}
            /\ Suspend("strategy", "odds_wait")
            /\ UNCHANGED <<data_vars, h_eval>>
       ELSE /\ IF EvalMarket \notin DOMAIN markets
               THEN UNCHANGED data_vars
               ELSE IF EvalPhase = "close"
               THEN close_before_end(EvalMarket) /\ UNCHANGED <<last_trade_ts, maker_vars>>
               ELSE IF EvalPhase = "cross_venue"
               THEN cross_venue_on_market(EvalMarket) /\ UNCHANGED maker_vars
               ELSE market_making_on_market(EvalMarket, odds)
            /\ Len(orders') <= MaxEngineOrders
            /\ h_ops' = h_ops
                 \cup (IF AsksOdds(EvalMarket, EvalPhase)
                       THEN {Op("strategy", EvalPhase, "odds")} ELSE {})
                 \cup (IF orders' # orders
                       THEN {Op("strategy", EvalPhase, "broker")} ELSE {})
            /\ h_eval' = [h_eval EXCEPT !["strategy"] = {}]
            /\ SetPc("strategy", "next")
            /\ UNCHANGED running
    /\ UNCHANGED <<quiet_vars, last_unwind_ts, unwind_wake, lock, markets, ranked_markets,
                   scan_wake, loc, h_scans>>

\* _persist_snapshots: tobs = dict(ctx.state.tob)
SnapshotCopy ==
    /\ running = "snapshot" /\ task_pc["snapshot"] = "copy_locked"
    /\ lock' = Released("snapshot")
    /\ SetPc("snapshot", "persist")
    /\ UNCHANGED <<data_vars, quiet_vars, last_unwind_ts, unwind_wake, running, markets,
                   ranked_markets, scan_wake, loc, h_ops, h_eval, h_scans>>

\* the loop over the positions of _persist_snapshots, then asyncio.sleep(1.0)
SnapshotPersist ==
    /\ running = "snapshot" /\ task_pc["snapshot"] = "persist"
    /\ _persist_snapshots
    /\ h_ops' = h_ops
         \cup (IF DOMAIN positions # {}
               THEN {Op("snapshot", "_persist_snapshots", "portfolio")} ELSE {})
         \cup {Op("snapshot", "_persist_snapshots", "store"),
               Op("snapshot", "snapshot_loop", "sleep")}
    /\ Suspend("snapshot", "sleep")
    /\ loc' = [loc EXCEPT !.snap_wake = now + 1]
    /\ UNCHANGED <<maker_vars, quiet_vars, last_unwind_ts, unwind_wake, lock, markets,
                   ranked_markets, scan_wake, h_eval, h_scans>>

\* _inventory_unwind_once: tobs = dict(ctx.state.tob)
UnwindCopy ==
    /\ running = "unwind" /\ task_pc["unwind"] = "copy_locked"
    /\ h_eval' = [h_eval EXCEPT !["unwind"] = DOMAIN state_tob]
    /\ lock' = Released("unwind")
    /\ SetPc("unwind", "act")
    /\ UNCHANGED <<data_vars, quiet_vars, last_unwind_ts, unwind_wake, running, markets,
                   ranked_markets, scan_wake, loc, h_ops, h_scans>>

\* the rest of _inventory_unwind_once, then asyncio.sleep(max(1.0, interval))
UnwindAct ==
    /\ running = "unwind" /\ task_pc["unwind"] = "act"
    /\ \E open_seq \in Orderings(OpenPositions(positions)) :
          LET st == UnwindOutcome(last_unwind_ts, open_seq)
          IN /\ Len(st.orders) <= MaxEngineOrders
             /\ _inventory_unwind_once(st)
             /\ last_unwind_ts' = st.last
             /\ h_ops' = h_ops
                  \cup (IF st.called
                        THEN {Op("unwind", "_inventory_unwind_once", "broker")} ELSE {})
                  \cup {Op("unwind", "_inventory_unwind_loop", "sleep")}
    /\ unwind_wake' = now + IMax(1, settings.unwind_interval_secs)
    /\ h_eval' = [h_eval EXCEPT !["unwind"] = {}]
    /\ Suspend("unwind", "sleep")
    /\ UNCHANGED <<maker_vars, replay_vars, h_iter, feed_vars, lock, markets,
                   ranked_markets, scan_wake, loc, h_scans, ext_vars>>

EngineSpecInit ==
    /\ fill_model = "on_book_cross"
    /\ min_rest_secs = 0
    /\ now = Epoch
    /\ orders = <<>>
    /\ by_market = <<>>
    /\ last_tob = <<>>
    /\ fills = {}
    /\ store_fills = EmptyBag
    /\ store_updates = {}
    /\ _meta_by_order_id = <<>>
    /\ h_seen = {}
    /\ h_placed = {}
    /\ h_call = "none"
    /\ settings = EngineSettings
    /\ state_tob = <<>>
    /\ \E rows \in UnwindSnapshots \ {<<>>} :
          /\ pos_snapshots = rows
          /\ positions = Rehydrated(rows, Epoch)
    /\ h_cash = <<>>
    /\ h_applied = 0
    /\ h_check = NoCheck
    /\ last_trade_ts = <<>>
    /\ mode = "live"
    /\ tape = <<>>
    /\ tape_pos = 0
    /\ bt_pc = "sleep"
    /\ h_live_final = <<>>
    /\ _quotes = <<>>
    /\ _quote_meta = <<>>
    /\ odds = ExternalOdds("mock")
    /\ h_iter = <<>>
    /\ FeedInit
    /\ UnwindInit
    /\ EngineInit
    /\ ExtInit

EngineNext ==
    \/ Resume
    \/ EngineTick
    \/ GoToSleep
    \/ TaskWake
    \/ ScannerStart
    \/ ScannerFails
    \/ ScannerFetched
    \/ ScannerUpdate
    \/ FeedCopy
    \/ FeedEmit
    \/ FeedTob
    \/ FeedOnBook
    \/ FeedApply
    \/ StrategyCopy
    \/ StrategyNext
    \/ StrategyRead
    \/ StrategyAct
    \/ SnapshotCopy
    \/ SnapshotPersist
    \/ UnwindCopy
    \/ UnwindAct

SpecEngine == EngineSpecInit /\ [][EngineNext]_vars

----------------------------------------------------------------------------
(* The engine when ctx.store.insert_order raises.  PaperBroker.place_limit has  *)
(* put the order into _orders, _by_market and _meta_by_order_id before it calls *)
(* the store, so the order rests in the broker and the caller's statements      *)
(* after `await ctx.broker.place_limit(...)` are skipped.                       *)

\* on_market of the market maker when the first place_limit it makes raises: the quote
\* it replaces is cancelled and popped, the new order is in the broker, and neither
\* _quotes nor _quote_meta records it
market_making_raises(market_id, ext) ==
    \E reqs \in { IF HasMark(StateTob(market_id)) /\ StateTob(market_id).best_bid # NoPrice
                      /\ StateTob(market_id).best_ask # NoPrice
                   THEN MakerRequests(market_id, ext) ELSE <<>> } :
    /\ ~MakerIdle(market_id, reqs)
    /\ \E st0 \in { [orders |-> orders, by_market |-> by_market,
                     metas |-> _meta_by_order_id, updates |-> {},
                     q |-> IF market_id \in DOMAIN _quotes THEN _quotes[market_id] ELSE <<>>,
                     qm |-> IF market_id \in DOMAIN _quote_meta
                            THEN _quote_meta[market_id] ELSE <<>>] } :
       \E st1 \in { _ensure_quote(st0, reqs[1], RiskOf(reqs[1]) = "ok") } :
       \E st2 \in { _ensure_quote(st1, reqs[2], RiskOf(reqs[2]) = "ok") } :
       \E st \in { IF Len(st1.orders) > Len(st0.orders)
                   THEN [st1 EXCEPT !.q = [k \in DOMAIN st0.q \ {"bid"} |-> st0.q[k]],
                                    !.qm = st0.qm]
                   ELSE [st2 EXCEPT !.q = [k \in DOMAIN st1.q \ {"ask"} |-> st1.q[k]],
                                    !.qm = st1.qm] } :
          /\ Len(st2.orders) > Len(st0.orders)
          /\ orders' = st.orders
          /\ by_market' = st.by_market
          /\ _meta_by_order_id' = st.metas
          /\ store_updates' = st.updates
          /\ fills' = {}
          /\ _quotes' = [m \in DOMAIN _quotes \cup {market_id} |->
                           IF m = market_id THEN st.q ELSE _quotes[m]]
          /\ _quote_meta' = [m \in DOMAIN _quote_meta \cup {market_id} |->
                               IF m = market_id THEN st.qm ELSE _quote_meta[m]]
          /\ h_check' = NoCheck
          /\ UNCHANGED <<fill_model, min_rest_secs, now, last_tob, store_fills, broker_hist,
                         settings, state_tob, positions, h_cash, h_applied, pos_snapshots,
                         last_trade_ts, odds>>

\* the step of strategy_loop places an order
StepPlaces(market_id, phase) ==
    /\ market_id \in DOMAIN markets
    /\ StateTob(market_id) # NoTob
    /\ StateTob(market_id).best_bid # NoPrice /\ StateTob(market_id).best_ask # NoPrice
    /\ CASE phase = "close" ->
              /\ markets[market_id].end_ts # NoTs
              /\ CurQty(positions, market_id) # 0
              /\ (markets[market_id].end_ts - now) <= settings.stop_before_end_secs
         [] phase = "cross_venue" ->
              /\ CrossVenueOrder(market_id).size # 0
              /\ RiskOf(CrossVenueOrder(market_id)) = "ok"
         [] OTHER -> TRUE

\* _maybe_close_before_end raises: nothing in strategy_loop catches it, the task ends
\* and asyncio.gather hands the exception to run_paper_trader
CloseStepRaises ==
    /\ running = "strategy" /\ task_pc["strategy"] = "act"
    /\ EvalPhase = "close"
    /\ StepPlaces(EvalMarket, "close")
    /\ close_before_end(EvalMarket)
    /\ orders' # orders
    /\ Len(orders') <= MaxEngineOrders
    /\ h_ops' = h_ops \cup {Op("strategy", "close", "raised")}
    /\ h_eval' = [h_eval EXCEPT !["strategy"] = {}]
    /\ Suspend("strategy", "crashed")
    /\ UNCHANGED <<last_trade_ts, maker_vars, quiet_vars, last_unwind_ts, unwind_wake, lock,
                   markets, ranked_markets, scan_wake, loc, h_scans>>

\* on_market of a strategy raises: `except Exception` of strategy_loop logs it and the
\* loop goes on with the next strategy or market
OnMarketRaises ==
    /\ running = "strategy" /\ task_pc["strategy"] = "act"
    /\ EvalPhase # "close"
    /\ StepPlaces(EvalMarket, EvalPhase)
    /\ IF EvalPhase = "cross_venue"
       THEN /\ GateAndPlace(CrossVenueOrder(EvalMarket))
            /\ UNCHANGED <<last_trade_ts, maker_vars>>
       ELSE market_making_raises(EvalMarket, odds)
    /\ Len(orders') <= MaxEngineOrders
    /\ h_ops' = h_ops \cup {Op("strategy", EvalPhase, "raised")}
    /\ h_eval' = [h_eval EXCEPT !["strategy"] = {}]
    /\ SetPc("strategy", "next")
    /\ UNCHANGED <<quiet_vars, last_unwind_ts, unwind_wake, running, lock, markets,
                   ranked_markets, scan_wake, loc, h_scans>>

\* the tasks in the first second of a run, before the first round of snapshot_loop
FaultsNext ==
    \/ Resume
    \/ GoToSleep
    \/ TaskWake
    \/ ScannerStart
    \/ ScannerFails
    \/ ScannerFetched
    \/ ScannerUpdate
    \/ FeedCopy
    \/ FeedEmit
    \/ FeedTob
    \/ FeedOnBook
    \/ FeedApply
    \/ StrategyCopy
    \/ StrategyNext
    \/ StrategyRead
    \/ StrategyAct
    \/ UnwindCopy
    \/ UnwindAct
    \/ CloseStepRaises
    \/ OnMarketRaises

SpecFaults == EngineSpecInit /\ [][FaultsNext]_vars

----------------------------------------------------------------------------
(* PolymarketClobWebSocketStream.events: the connection loop of the live feed.  *)
(* Times are in milliseconds.  ws.pc is the place of the generator: "connect"   *)
(* before websockets.connect, "recv" in the receive loop, "handler" in the      *)
(* `except Exception` clause before its status write, "ended" once an exception *)
(* has left the generator (feed_loop has no handler, the feed task ends).       *)
(* h_ws describes the last connection end: its kind, the delay slept before the *)
(* next attempt and its place in the row of delays since the last successful    *)
(* connect.                                                                     *)

\* connection ends in one run
MaxWsEnds == 7
\* frames received on one connection
MaxWsFrames == 1

\* `min(30.0, backoff * 2.0)`
IMin(a, b) == IF a < b THEN a ELSE b

non_ext_vars == <<broker_vars, broker_hist, app_vars, replay_vars, maker_vars, h_iter,
                  feed_vars, unwind_vars, engine_vars>>

\* the last connection has ended: what the generator slept before going on
WsEnd(kind, delay) ==
    h_ws' = [ends |-> h_ws.ends + 1, kind |-> kind, delay |-> delay,
             streak |-> h_ws.since + 1,
             since |-> IF delay = NoDelay THEN h_ws.since ELSE h_ws.since + 1]

\* `await keepalive_task` of a task whose cancel() took effect raises CancelledError,
\* which is no Exception: `except Exception: pass` does not catch it
KeepaliveAwaitRaises == ws.keepalive = "running"

\* websockets.connect raises (refused, timed out, handshake failed)
WsConnectFails ==
    /\ ws.pc = "connect" /\ h_ws.ends < MaxWsEnds
    /\ ws' = [ws EXCEPT !.pc = "handler", !.pending = "connect_failure"]
    /\ UNCHANGED <<h_ws, bt, non_ext_vars>>

\* the connection is open: status write, backoff = 1.0, the keepalive task, resub
WsConnected ==
    /\ ws.pc = "connect"
    /\ ws' = [pc |-> "recv", backoff |-> BackoffStart, keepalive |-> "running",
              rx_frames |-> 0, pending |-> "none"]
    /\ h_ws' = [h_ws EXCEPT !.since = 0]
    /\ UNCHANGED <<bt, non_ext_vars>>

\* one frame received, normalized and yielded
WsFrame ==
    /\ ws.pc = "recv" /\ ws.rx_frames < MaxWsFrames
    /\ ws' = [ws EXCEPT !.rx_frames = ws.rx_frames + 1]
    /\ UNCHANGED <<h_ws, bt, non_ext_vars>>

\* _ping_loop returns: the socket is closed or its ping failed and it closed the socket
WsKeepaliveEnds ==
    /\ ws.pc = "recv" /\ ws.keepalive = "running"
    /\ ws' = [ws EXCEPT !.keepalive = "done"]
    /\ UNCHANGED <<h_ws, bt, non_ext_vars>>

\* `break` out of the receive loop, then the finally clause and the end of `async with`
WsBreak(kind) ==
    /\ WsEnd(kind, NoDelay)
    /\ ws' = [ws EXCEPT !.pc = IF KeepaliveAwaitRaises THEN "ended" ELSE "connect",
                        !.keepalive = "none"]
    /\ UNCHANGED <<bt, non_ext_vars>>

\* ws.recv raises ConnectionClosed
WsDisconnected ==
    /\ ws.pc = "recv" /\ h_ws.ends < MaxWsEnds
    /\ WsBreak("server_disconnect")

\* recv times out and the ping that follows fails
WsStale ==
    /\ ws.pc = "recv" /\ h_ws.ends < MaxWsEnds
    /\ WsBreak("stale")

\* an exception in the receive loop, then the finally clause
WsLoopRaises(kind) ==
    /\ IF KeepaliveAwaitRaises
       THEN /\ WsEnd(kind, NoDelay)
            /\ ws' = [ws EXCEPT !.pc = "ended", !.keepalive = "none"]
       ELSE /\ ws' = [ws EXCEPT !.pc = "handler", !.pending = kind, !.keepalive = "none"]
            /\ UNCHANGED h_ws
    /\ UNCHANGED <<bt, non_ext_vars>>

\* resub or the handling of a frame raises
WsError ==
    /\ ws.pc = "recv" /\ h_ws.ends < MaxWsEnds
    /\ WsLoopRaises("error")

\* the `except Exception` clause: status write, asyncio.sleep(backoff + jitter), doubling
WsBackoff ==
    /\ ws.pc = "handler"
    /\ \E jitter \in Jitters : WsEnd(ws.pending, ws.backoff + jitter)
    /\ ws' = [ws EXCEPT !.pc = "connect", !.pending = "none",
                        !.backoff = IMin(BackoffCap, ws.backoff * 2)]
    /\ UNCHANGED <<bt, non_ext_vars>>

\* upsert_runtime_status raises right after the connection opened (line 70)
WsStatusRaisesOnConnect ==
    /\ ws.pc = "connect" /\ h_ws.ends < MaxWsEnds
    /\ ws' = [ws EXCEPT !.pc = "handler", !.pending = "status_write"]
    /\ UNCHANGED <<h_ws, bt, non_ext_vars>>

\* upsert_runtime_status raises in the receive loop (line 240)
WsRxStatusRaises ==
    /\ ws.pc = "recv" /\ h_ws.ends < MaxWsEnds
    /\ ws.rx_frames < MaxWsFrames
    /\ WsLoopRaises("status_write")

\* upsert_runtime_status raises in the `except Exception` clause (line 297)
WsHandlerStatusRaises ==
    /\ ws.pc = "handler"
    /\ WsEnd(ws.pending, NoDelay)
    /\ ws' = [ws EXCEPT !.pc = "ended", !.pending = "none"]
    /\ UNCHANGED <<bt, non_ext_vars>>

WsStatusRaises == WsStatusRaisesOnConnect \/ WsRxStatusRaises \/ WsHandlerStatusRaises

\* the feed with a store that works
WsNext ==
    \/ WsConnectFails
    \/ WsConnected
    \/ WsFrame
    \/ WsKeepaliveEnds
    \/ WsDisconnected
    \/ WsStale
    \/ WsError
    \/ WsBackoff

\* the feed with a store whose status writes may raise
WsFaultsNext ==
    \/ WsConnectFails
    \/ WsConnected
    \/ WsFrame
    \/ WsKeepaliveEnds
    \/ WsDisconnected
    \/ WsStale
    \/ WsError
    \/ WsBackoff
    \/ WsStatusRaisesOnConnect
    \/ WsRxStatusRaises
    \/ WsHandlerStatusRaises

SpecWs == EngineSpecInit /\ [][WsNext]_vars
SpecWsFaults == EngineSpecInit /\ [][WsFaultsNext]_vars

----------------------------------------------------------------------------
(* CrossVenueFairValueStrategy on one market of a paper session that lasts      *)
(* longer than the cooldown                                                     *)

\* seconds of the session
MaxCooldownSecs == 4
\* orders the strategy places in one session
MaxCooldownOrders == 3
CooldownMarket == "m1"
\* two books with a buy signal, the second with the lower ask, and a book with a sell
\* signal
CooldownBooks == { TopOfBook(9994, 9997), TopOfBook(9987, 9990), TopOfBook(10600, 10603) }
\* a short cooldown, and limits that reject a stale book and a second lot
CooldownSettings ==
    [DefaultSettings EXCEPT !.min_trade_cooldown_secs = 2, !.max_feed_lag_secs = 1,
                            !.max_pos_per_market = 10]

CooldownInit ==
    /\ fill_model = "on_book_cross"
    /\ min_rest_secs = 0
    /\ now = 0
    /\ orders = <<>>
    /\ by_market = <<>>
    /\ last_tob = <<>>
    /\ fills = {}
    /\ store_fills = EmptyBag
    /\ store_updates = {}
    /\ _meta_by_order_id = <<>>
    /\ h_seen = {}
    /\ h_placed = {}
    /\ h_call = "none"
    /\ settings = CooldownSettings
    /\ state_tob = <<>>
    /\ positions = <<>>
    /\ h_cash = <<>>
    /\ h_applied = 0
    /\ h_check = NoCheck
    /\ pos_snapshots = <<>>
    /\ last_trade_ts = <<>>
    /\ mode = "live"
    /\ tape = <<>>
    /\ tape_pos = 0
    /\ bt_pc = "sleep"
    /\ h_live_final = <<>>
    /\ _quotes = <<>>
    /\ _quote_meta = <<>>
    /\ odds = DefaultOdds
    /\ h_iter = <<>>
    /\ SideInit

\* _handle_feed_event for a BookEvent of the market
CooldownBookEvent ==
    /\ \E tob \in CooldownBooks : handle_book_event(CooldownMarket, tob, now)
    /\ UNCHANGED <<replay_vars, maker_vars, h_iter, side_vars>>

\* one on_market call of strategy_loop
CooldownStrategy ==
    /\ cross_venue_on_market(CooldownMarket)
    /\ Len(orders') <= MaxCooldownOrders
    /\ UNCHANGED <<replay_vars, maker_vars, h_iter, side_vars>>

CooldownTick ==
    /\ now < MaxCooldownSecs
    /\ now' = now + 1
    /\ fills' = {}
    /\ store_updates' = {}
    /\ UNCHANGED <<fill_model, min_rest_secs, _meta_by_order_id, orders, by_market, last_tob,
                   store_fills, broker_hist, app_vars, replay_vars, maker_vars, h_iter,
                   side_vars>>

CooldownNext ==
    \/ CooldownBookEvent
    \/ CooldownStrategy
    \/ CooldownTick

SpecCooldown == CooldownInit /\ [][CooldownNext]_vars

----------------------------------------------------------------------------
(* run_backtest on SqliteStore.  iter_tape is a generator whose body runs       *)
(* inside `with self._lock:`, a threading.Lock that is not reentrant: between   *)
(* two rows the generator is suspended at its yield with the lock held, and     *)
(* every write method of the store takes the same lock on the same thread.      *)
(* bt.pc is the place of run_backtest: "idle" before the call, "open" before    *)
(* the first row is asked for, "row" with a row in hand, "strategies" and       *)
(* "snapshots" inside the loop body, "blocked" inside an acquire() that never   *)
(* returns, "done" after the loop.                                              *)

\* rows of the tape
MaxBtRows == 3
\* the kinds of tape rows: _payload_to_event returns None for any other kind
BtKinds == {"tob", "trade", "other"}
BtTapes == UNION { [1..n -> BtKinds] : n \in 0..MaxBtRows }

\* next(iter_tape(...)): the generator goes on to its next yield, the lock still held,
\* or runs off the end of its `with` block and releases the lock
NextRow(b) ==
    IF b.pos < Len(b.rows)
    THEN [b EXCEPT !.pc = "row", !.pos = b.pos + 1, !.lock = "iter_tape"]
    ELSE [b EXCEPT !.pc = "done", !.lock = "free"]

\* a write method of the store, `with self._lock:` first, then the place `after`
StoreWrite(b, after) ==
    IF b.lock = "free"
    THEN [after EXCEPT !.writes = b.writes + 1]
    ELSE [b EXCEPT !.pc = "blocked"]

\* run_backtest is called on a store that holds a tape
BtStart ==
    /\ bt.pc = "idle"
    /\ \E rows \in BtTapes : bt' = [bt EXCEPT !.pc = "open", !.rows = rows]
    /\ UNCHANGED <<non_ext_vars, ws, h_ws>>

\* the for statement asks iter_tape for its first row
BtOpen ==
    /\ bt.pc = "open"
    /\ bt' = NextRow(bt)
    /\ UNCHANGED <<non_ext_vars, ws, h_ws>>

\* _payload_to_event returns None: `continue`
BtSkip ==
    /\ bt.pc = "row" /\ bt.rows[bt.pos] = "other"
    /\ bt' = NextRow(bt)
    /\ UNCHANGED <<non_ext_vars, ws, h_ws>>

\* _handle_feed_event: the broker writes a fill to the store when an order fills
BtHandle ==
    /\ bt.pc = "row" /\ bt.rows[bt.pos] # "other"
    /\ \E fills_order \in BOOLEAN :
          bt' = IF fills_order /\ bt.orders > 0
                THEN StoreWrite(bt, [bt EXCEPT !.pc = "strategies", !.orders = bt.orders - 1])
                ELSE [bt EXCEPT !.pc = "strategies"]
    /\ UNCHANGED <<non_ext_vars, ws, h_ws>>

\* the strategies and _inventory_unwind_once: place_limit records the order in the
\* broker and then writes it to the store
BtStrategies ==
    /\ bt.pc = "strategies"
    /\ \E places \in BOOLEAN :
          bt' = IF places
                THEN StoreWrite([bt EXCEPT !.orders = bt.orders + 1],
                                [bt EXCEPT !.pc = "snapshots", !.orders = bt.orders + 1])
                ELSE [bt EXCEPT !.pc = "snapshots"]
    /\ UNCHANGED <<non_ext_vars, ws, h_ws>>

\* _persist_snapshots: insert_pnl_snapshot is called on every round, then the for
\* statement asks for the next row
BtSnapshots ==
    /\ bt.pc = "snapshots"
    /\ bt' = StoreWrite(bt, NextRow(bt))
    /\ UNCHANGED <<non_ext_vars, ws, h_ws>>

BtNext ==
    \/ BtStart
    \/ BtOpen
    \/ BtSkip
    \/ BtHandle
    \/ BtStrategies
    \/ BtSnapshots

SpecBacktestLock == EngineSpecInit /\ [][BtNext]_vars

----------------------------------------------------------------------------
(* The unwind loop over an unbounded run.  The clock stays at Epoch and a      *)
(* second that passes moves every recorded timestamp one second into the past. *)
(* The code compares only the difference now - ts with a threshold, so a       *)
(* timestamp is kept at the first age from which its test no longer changes.   *)

\* the timestamp ts one second later, for a test that no longer changes from the age
\* w on; 0 and NoTs stand for "never" and stay
Earlier(ts, w) == IF ts <= 0 THEN ts ELSE IMax(Epoch - w, ts - 1)

\* settings of the runs: positions older than two seconds are flattened, the TOB of a
\* market counts as fresh for one second, and either the two loaded positions exhaust
\* the exposure limit of their event or the kill switch is set and one market is
\* unwound per cycle
AgingSettings ==
    { [DefaultSettings EXCEPT !.max_pos_age_secs = 2, !.unwind_interval_secs = 1,
                              !.max_feed_lag_secs = 1, !.max_event_exposure = 45000],
      [DefaultSettings EXCEPT !.max_pos_age_secs = 2, !.unwind_interval_secs = 1,
                              !.max_feed_lag_secs = 1, !.kill_switch = TRUE,
                              !.daily_loss_limit = 0,
                              !.unwind_max_markets_per_cycle = 1] }

\* run_paper_trader after start-up with the positions m1 +2 and m2 -1 of event e1
AgingInit ==
    /\ fill_model = "on_book_cross"
    /\ min_rest_secs = 0
    /\ now = Epoch
    /\ orders = <<>>
    /\ by_market = <<>>
    /\ last_tob = <<>>
    /\ fills = {}
    /\ store_fills = EmptyBag
    /\ store_updates = {}
    /\ _meta_by_order_id = <<>>
    /\ h_seen = {}
    /\ h_placed = {}
    /\ h_call = "none"
    /\ settings \in AgingSettings
    /\ state_tob = <<>>
    /\ \E rows \in UnwindSnapshots \ {<<>>} :
          /\ pos_snapshots = rows
          /\ positions = Rehydrated(rows, Epoch)
    /\ h_cash = <<>>
    /\ h_applied = 0
    /\ h_check = NoCheck
    /\ last_trade_ts = <<>>
    /\ mode = "live"
    /\ tape = <<>>
    /\ tape_pos = 0
    /\ bt_pc = "sleep"
    /\ h_live_final = <<>>
    /\ _quotes = <<>>
    /\ _quote_meta = <<>>
    /\ odds = DefaultOdds
    /\ h_iter = <<>>
    /\ FeedInit
    /\ last_unwind_ts = <<>>
    /\ unwind_wake = Epoch
    /\ h_unwind = <<>>
    /\ EngineInit
    /\ ExtInit

\* one second passes
AgingTick ==
    \* age_secs(p) >= max_age
    /\ positions' = [m \in DOMAIN positions |->
                       [positions[m] EXCEPT
                          !.opened_ts = Earlier(@, settings.max_pos_age_secs)]]
    \* (now - tob.ts) > max_feed_lag_secs
    /\ state_tob' = [m \in DOMAIN state_tob |->
                       [state_tob[m] EXCEPT
                          !.ts = Earlier(@, settings.max_feed_lag_secs + 1)]]
    \* (now - o.created_ts) < min_rest_secs
    /\ orders' = [i \in DOMAIN orders |->
                    [orders[i] EXCEPT !.created_ts = Earlier(@, min_rest_secs)]]
    \* (now - prev) < min_repeat
    /\ last_unwind_ts' = [m \in DOMAIN last_unwind_ts |->
                            Earlier(last_unwind_ts[m], min_repeat)]
    \* asyncio.sleep(max(1.0, interval)) is over
    /\ unwind_wake' = Earlier(unwind_wake, 0)
    /\ fills' = {}
    /\ store_updates' = {}
    /\ UNCHANGED <<fill_model, min_rest_secs, now, _meta_by_order_id, by_market, last_tob,
                   store_fills, broker_hist, settings, h_cash, h_applied, h_check,
                   pos_snapshots, last_trade_ts, replay_vars, maker_vars, h_iter,
                   feed_vars, h_unwind, engine_vars, ext_vars>>

AgingNext ==
    \/ UnwindBookEvent
    \/ PaperUnwind
    \/ AgingTick

\* the guard of PaperUnwind: the loop is configured and its sleep is over
UnwindReady ==
    /\ mode = "live"
    /\ settings.max_open_positions > 0 \/ settings.max_pos_age_secs > 0
    /\ now >= unwind_wake

\* weak fairness of the unwind loop, WF_vars(PaperUnwind) with ENABLED written as the
\* guard: a loop whose sleep is over runs its next cycle
UnwindLoopFair == []<>(~UnwindReady) \/ []<><<PaperUnwind>>_vars

\* the clock advances and the unwind loop runs again once its sleep is over
SpecAging ==
    AgingInit /\ [][AgingNext]_vars /\ WF_vars(AgingTick) /\ UnwindLoopFair

----------------------------------------------------------------------------
(* Risk engine and portfolio: properties *)

ReduceOnlyBypassed == {"kill_switch", "max_open_positions", "max_pos_per_market",
                       "daily_loss_limit"}

\* C1: a reduce-only order that passes the size, price and circuit-breaker checks is
\* never rejected with kill_switch, max_open_positions, max_pos_per_market or
\* daily_loss_limit (as stated; the code rejects it with max_pos_per_market)
C1_ReduceOnlyNotRejected ==
    (h_check # NoCheck /\ h_check.reduce_only) => h_check.reason \notin ReduceOnlyBypassed

\* (qty, avg_price, realized_pnl) of a market, zero where there is no position
PositionTriple(P, m) ==
    IF m \in DOMAIN P THEN <<P[m].qty, P[m].avg_price, P[m].realized_pnl>>
    ELSE <<0, Zero, Zero>>

\* C3: when run_backtest has replayed the tape of a live session, every market's
\* (qty, avg_price, realized_pnl) equals the one the live session reached (as stated;
\* the code's backtest diverges)
C3_ReplayReachesLivePositions ==
    mode = "done" =>
        \A m \in Markets : PositionTriple(positions, m) = PositionTriple(h_live_final, m)

\* C4: for every market and every mark, realized_pnl + unrealized_pnl at that mark equals
\* the cash flow of all applied fills plus qty * mark
C4_PnlEqualsCashAccounting ==
    \A m \in DOMAIN positions :
        \A tob \in { StampedTob(b, 0) : b \in BookInputs } :
            HasMark(tob) =>
                RAdd(positions[m].realized_pnl, unrealized_pnl(positions, m, tob))
                    = RAdd(RInt(h_cash[m]), RMul(RInt(positions[m].qty), Mid(tob)))

\* C4 witness: after three fills, a short position with realized PnL and an average
\* price that is not a fill price
C4_Witness ==
    \E m \in DOMAIN positions :
        /\ positions[m].qty < 0
        /\ positions[m].realized_pnl # Zero
        /\ positions[m].avg_price[2] # 1
        /\ h_applied >= 3

----------------------------------------------------------------------------
(* Paper broker: properties *)

BookCallKinds == {"on_book_first", "on_book_repeat", "on_book"}

FilledBy(fs, oid) == \E f \in fs : f.order_id = oid
FillPriceOf(fs, oid) == (CHOOSE f \in fs : f.order_id = oid).price

\* the order's limit is at or through the opposite touch of tob
CrossesBook(o, tob) ==
    \/ o.side = "buy" /\ tob.best_ask # NoPrice /\ tob.best_ask <= o.price
    \/ o.side = "sell" /\ tob.best_bid # NoPrice /\ tob.best_bid >= o.price

\* the order has rested min_rest_secs at time t
HasRested(o, t) == min_rest_secs = 0 \/ t - o.created_ts >= min_rest_secs

\* C2: an order's status only ever goes open -> filled or open -> cancelled,
\* a filled or cancelled order keeps its status, and filled_size never
\* decreases and never exceeds size.
C2_StatusMonotone ==
    [][\A oid \in DOMAIN orders :
         /\ oid \in DOMAIN orders'
         /\ (orders'[oid].status # orders[oid].status
               => /\ orders[oid].status = "open"
                  /\ orders'[oid].status \in {"filled", "cancelled"})
         /\ orders'[oid].filled_size >= orders[oid].filled_size
         /\ orders'[oid].filled_size <= orders'[oid].size]_vars

\* a filled order after a later place_limit / cancel / cancel_all_market / tick
C2_Witness ==
    \E oid \in DOMAIN orders :
        /\ orders[oid].status = "filled"
        /\ orders[oid].filled_size = orders[oid].size
        /\ h_call = "none"

\* C5 as stated: under on_book_cross a second on_book with the identical TOB
\* and no place_limit in between returns no fills, for every min_rest_secs.
C5_RepeatNoFills ==
    (fill_model = "on_book_cross" /\ h_call = "on_book_repeat") => fills = {}

\* C5 amended: under on_book_cross the repeated call fills no order that the
\* first call evaluated (open and rested then), and nothing at all when
\* min_rest_secs = 0.
C5_RepeatNoFillsForRested ==
    [][(fill_model = "on_book_cross" /\ h_call' = "on_book_repeat")
         => /\ \A f \in fills' : f.order_id \notin h_seen
            /\ (min_rest_secs = 0 => fills' = {})]_vars

\* the repeated call found the order already filled by the crossing: no fills
C5_Witness ==
    /\ fill_model = "on_book_cross"
    /\ h_call = "on_book_repeat"
    /\ fills = {}
    /\ \E oid \in DOMAIN orders :
          /\ orders[oid].status = "filled"
          /\ orders[oid].market_id \in DOMAIN last_tob
          /\ CrossesBook(orders[oid], last_tob[orders[oid].market_id])

\* C6 as stated: under maker_touch the first on_book of a market returns no
\* fills whatever the open orders and their prices.
C6_FirstBookNoFills ==
    (fill_model = "maker_touch" /\ h_call = "on_book_first") => fills = {}

\* C6 amended: under maker_touch the first on_book of a market fills only
\* orders that cross the new TOB; it produces no passive (touch) fill.
C6_FirstBookOnlyCrossingFills ==
    (fill_model = "maker_touch" /\ h_call = "on_book_first")
        => \A f \in fills : /\ f.market_id \in DOMAIN last_tob
                            /\ CrossesBook(orders[f.order_id], last_tob[f.market_id])

\* first TOB of the market with the bid already below an open, rested buy: no fill
C6_Witness ==
    /\ fill_model = "maker_touch"
    /\ h_call = "on_book_first"
    /\ fills = {}
    /\ \E oid \in DOMAIN orders :
          LET o == orders[oid] IN
          /\ o.status = "open" /\ o.side = "buy" /\ HasRested(o, now)
          /\ o.market_id \in DOMAIN last_tob
          /\ last_tob[o.market_id].best_bid # NoPrice
          /\ last_tob[o.market_id].best_bid < o.price - Eps

\* C7: under on_book_cross an open, rested BUY fills iff best_ask is present
\* and best_ask <= price; it pays best_ask only when it crossed on entry (it
\* has not rested through an earlier TOB) and otherwise fills at exactly its
\* limit price.  Symmetric for SELL against best_bid.
C7_CrossFillRule ==
    [][\A m \in FeedMarkets, tob \in BookInputs :
         (fill_model = "on_book_cross" /\ on_book(m, tob))
           => \A oid \in OrdersOf(m) :
                LET o == orders[oid] IN
                (o.status = "open" /\ HasRested(o, now)) =>
                  IF o.side = "buy"
                  THEN /\ FilledBy(fills', oid)
                            <=> (tob.best_ask # NoPrice /\ tob.best_ask <= o.price)
                       /\ FilledBy(fills', oid)
                            => FillPriceOf(fills', oid) =
                                 (IF oid \notin h_seen /\ tob.best_ask < o.price
                                  THEN tob.best_ask ELSE o.price)
                  ELSE /\ FilledBy(fills', oid)
                            <=> (tob.best_bid # NoPrice /\ tob.best_bid >= o.price)
                       /\ FilledBy(fills', oid)
                            => FillPriceOf(fills', oid) =
                                 (IF oid \notin h_seen /\ tob.best_bid > o.price
                                  THEN tob.best_bid ELSE o.price)]_vars

\* the passive fill rule of maker_touch for one order against prev and tob
TouchMovedAway(o, prev, tob) ==
    IF o.side = "buy"
    THEN /\ prev.best_bid # NoPrice /\ Abs(o.price - prev.best_bid) <= Eps
         /\ tob.best_bid # NoPrice /\ tob.best_bid < o.price - Eps
    ELSE /\ prev.best_ask # NoPrice /\ Abs(o.price - prev.best_ask) <= Eps
         /\ tob.best_ask # NoPrice /\ tob.best_ask > o.price + Eps

\* C8 as stated: under maker_touch with a previous TOB, every open
\* non-crossing order that was at the previous touch fills at its limit when
\* the touch moves away by more than eps, and gets no fill otherwise.
C8_TouchFillRule ==
    [][\A m \in FeedMarkets, tob \in BookInputs :
         (fill_model = "maker_touch" /\ m \in DOMAIN last_tob /\ on_book(m, tob))
           => \A oid \in OrdersOf(m) :
                LET o == orders[oid] IN
                (o.status = "open" /\ ~CrossesBook(o, tob)) =>
                  /\ FilledBy(fills', oid) <=> TouchMovedAway(o, last_tob[m], tob)
                  /\ FilledBy(fills', oid) => FillPriceOf(fills', oid) = o.price]_vars

\* C8 amended: the same for every open non-crossing order that has rested
\* min_rest_secs.
C8_TouchFillRuleRested ==
    [][\A m \in FeedMarkets, tob \in BookInputs :
         (fill_model = "maker_touch" /\ m \in DOMAIN last_tob /\ on_book(m, tob))
           => \A oid \in OrdersOf(m) :
                LET o == orders[oid] IN
                (o.status = "open" /\ HasRested(o, now) /\ ~CrossesBook(o, tob)) =>
                  /\ FilledBy(fills', oid) <=> TouchMovedAway(o, last_tob[m], tob)
                  /\ FilledBy(fills', oid) => FillPriceOf(fills', oid) = o.price]_vars

\* a passive fill: the filled order does not cross the TOB that filled it
C8_Witness ==
    /\ fill_model = "maker_touch"
    /\ h_call = "on_book"
    /\ \E f \in fills :
          /\ ~CrossesBook(orders[f.order_id], last_tob[f.market_id])
          /\ f.price = orders[f.order_id].price
          /\ orders[f.order_id].status = "filled"

\* the print that fills a resting order under trade_through
TradeThrough(o, trade) ==
    IF o.side = "buy" THEN trade.side = "sell" /\ trade.price <= o.price
    ELSE trade.side = "buy" /\ trade.price >= o.price

\* C9: under trade_through on_book never fills and on_trade fills an open
\* rested order iff the print is on the opposite side at or through its
\* limit, always at the limit price; under the two book models on_trade
\* never fills.
C9_TradeThroughRule ==
    [][/\ \A m \in FeedMarkets, trade \in TradeInputs :
            on_trade(m, trade) =>
              IF fill_model = "trade_through"
              THEN \A oid \in OrdersOf(m) :
                     LET o == orders[oid] IN
                     (o.status = "open" /\ HasRested(o, now)) =>
                       /\ FilledBy(fills', oid) <=> TradeThrough(o, trade)
                       /\ FilledBy(fills', oid) => FillPriceOf(fills', oid) = o.price
              ELSE fills' = {}
       /\ \A m \in FeedMarkets, tob \in BookInputs :
            (fill_model = "trade_through" /\ on_book(m, tob)) => fills' = {}]_vars

\* on_trade has filled a resting buy at its limit
C9_Witness ==
    /\ fill_model = "trade_through"
    /\ h_call = "on_trade"
    /\ \E f \in fills :
          /\ f.side = "buy"
          /\ f.price = orders[f.order_id].price
          /\ orders[f.order_id].status = "filled"

\* number of rows of the fills table for one order
FillCount(oid) ==
    BagCardinality([f \in { g \in BagToSet(store_fills) : g.order_id = oid }
                      |-> store_fills[f]])

\* C10: every fill is for the order's whole remaining size and leaves the
\* order filled with filled_size = size, so no order_id has two fills.
C10_AllOrNothing ==
    [][/\ \A f \in fills' :
            /\ f.order_id \in DOMAIN orders
            /\ f.size = orders[f.order_id].size - orders[f.order_id].filled_size
            /\ orders'[f.order_id].filled_size = orders'[f.order_id].size
            /\ orders'[f.order_id].status = "filled"
       /\ \A oid \in DOMAIN orders' : FillCount(oid)' <= 1]_vars

\* a fill of the whole order is in the fills table and more events followed
C10_Witness ==
    \E oid \in DOMAIN orders :
        /\ orders[oid].status = "filled"
        /\ FillCount(oid) = 1
        /\ \E f \in BagToSet(store_fills) : f.order_id = oid /\ f.size = orders[oid].size
        /\ h_call \in BookCallKinds \cup {"on_trade"}
        /\ fills = {}

\* the step is an on_book or on_trade call (or changes nothing)
FeedCallStep == h_call' # "none" /\ now' = now

\* C11: with min_rest_secs > 0 no on_book or on_trade call fills an order
\* younger than min_rest_secs; such an order is left open and unchanged by the
\* call (so it can fill on a later event).
C11_NoFillBeforeRest ==
    [][(min_rest_secs > 0 /\ FeedCallStep)
         => \A oid \in DOMAIN orders :
              (orders[oid].status = "open"
               /\ now - orders[oid].created_ts < min_rest_secs)
                => /\ ~FilledBy(fills', oid)
                   /\ orders'[oid] = orders[oid]]_vars

\* an order too young for an on_book call is filled by the identical call
\* repeated after it has rested
C11_Witness ==
    /\ min_rest_secs > 0
    /\ fill_model = "on_book_cross"
    /\ h_call = "on_book_repeat"
    /\ \E f \in fills :
          /\ orders[f.order_id].status = "filled"
          /\ now - orders[f.order_id].created_ts >= min_rest_secs

\* C12: cancel(order_id) on an unknown, filled or cancelled order changes no
\* order and issues no store update; on an open order it sets that order's
\* status to cancelled, issues that one update, and changes nothing else of
\* that order and nothing of any other order.
C12_CancelFrame ==
    [][\A order_id \in 1..(MaxOrders + 1) :
         cancel(order_id) =>
           IF order_id \in DOMAIN orders /\ orders[order_id].status = "open"
           THEN /\ DOMAIN orders' = DOMAIN orders
                /\ orders'[order_id].status = "cancelled"
                /\ \A k \in DOMAIN orders[order_id] \ {"status"} :
                      orders'[order_id][k] = orders[order_id][k]
                /\ \A oid \in DOMAIN orders \ {order_id} : orders'[oid] = orders[oid]
                /\ store_updates' = { <<order_id, "cancelled">> }
                /\ store_fills' = store_fills
           ELSE /\ orders' = orders
                /\ store_updates' = {}
                /\ store_fills' = store_fills]_vars

\* a filled order that a later cancel or cancel_all_market left as it was
C12_Witness ==
    \E oid \in DOMAIN orders :
        /\ orders[oid].status = "filled"
        /\ FillCount(oid) = 1
        /\ h_call = "none"
        /\ store_updates = {}
        /\ fills = {}

\* the recorded pre_trade_check call took the order of a strategy and its arguments
CheckRecorded == h_check # NoCheck /\ "req" \in DOMAIN h_check

\* the TOB of the recorded call passes the circuit breaker
CheckTobValid ==
    LET tob == h_check.tob
    IN /\ tob # NoTob
       /\ h_check.t - tob.ts <= settings.max_feed_lag_secs
       /\ (tob.best_bid # NoPrice /\ tob.best_ask # NoPrice)
            => /\ tob.best_ask >= tob.best_bid
               /\ tob.best_ask - tob.best_bid <= settings.max_spread

\* C13: with kill_switch set pre_trade_check rejects every order that is not
\* reduce-only, whatever the portfolio and TOB; an order that opens from flat
\* with valid size, price and TOB and no open-positions cap is rejected with
\* reason kill_switch.
C13_KillSwitchBlocks ==
    (CheckRecorded /\ settings.kill_switch /\ ~h_check.reduce_only)
      => /\ h_check.reason # "ok"
         /\ (/\ CurQty(positions, h_check.req.market_id) = 0
             /\ h_check.req.size > 0
             /\ h_check.req.price >= 0 /\ h_check.req.price <= PriceOne
             /\ CheckTobValid
             /\ settings.max_open_positions = 0)
              => h_check.reason = "kill_switch"

\* kill_switch rejects an order that adds to an existing position
C13_Witness ==
    /\ CheckRecorded
    /\ settings.kill_switch
    /\ h_check.reason = "kill_switch"
    /\ CurQty(positions, h_check.req.market_id) > 0
    /\ h_check.req.side = "buy"

\* the rules of pre_trade_check in the order the claim gives them
RuleOrder ==
    <<"bad_size", "bad_price", "no_top_of_book", "feed_lag", "crossed_book",
      "spread_too_wide", "max_open_positions", "kill_switch", "max_pos_per_market",
      "max_event_exposure", "daily_loss_limit">>

\* rule number i fails for the recorded call, each rule taken by itself
RuleFails(i) ==
    LET req == h_check.req
        tob == h_check.tob
        cur_qty == CurQty(positions, req.market_id)
        signed == IF req.side = "buy" THEN req.size ELSE -req.size
        new_qty == cur_qty + signed
        two_sided == tob # NoTob /\ tob.best_bid # NoPrice /\ tob.best_ask # NoPrice
    IN CASE i = 1 -> req.size <= 0
         [] i = 2 -> req.price < 0 \/ req.price > PriceOne
         [] i = 3 -> tob = NoTob
         [] i = 4 -> tob # NoTob /\ h_check.t - tob.ts > settings.max_feed_lag_secs
         [] i = 5 -> two_sided /\ tob.best_ask < tob.best_bid
         [] i = 6 -> two_sided /\ tob.best_ask - tob.best_bid > settings.max_spread
         [] i = 7 -> /\ settings.max_open_positions > 0
                     /\ ~h_check.reduce_only /\ cur_qty = 0 /\ new_qty # 0
                     /\ Cardinality({ m \in DOMAIN positions : positions[m].qty # 0 })
                          >= settings.max_open_positions
         [] i = 8 -> settings.kill_switch /\ ~h_check.reduce_only
         [] i = 9 -> Abs(cur_qty + signed) > settings.max_pos_per_market
         [] i = 10 -> RLt(RInt(settings.max_event_exposure),
                          EventExposure(positions, EventOf(req.market_id), signed,
                                        req.price))
         [] i = 11 -> RLt(TotalPnl(positions), RInt(-settings.daily_loss_limit))
                      /\ ~h_check.reduce_only

FailingRules == { i \in DOMAIN RuleOrder : RuleFails(i) }

\* C14: pre_trade_check returns the reason of the first failing rule in the
\* order bad_size, bad_price, no_top_of_book, feed_lag, crossed_book,
\* spread_too_wide, max_open_positions, kill_switch, max_pos_per_market,
\* max_event_exposure, daily_loss_limit, and ok exactly when no rule fails.
C14_FirstFailingRuleWins ==
    CheckRecorded
      => h_check.reason =
           (IF FailingRules = {} THEN "ok"
            ELSE RuleOrder[CHOOSE i \in FailingRules : \A j \in FailingRules : i <= j])

\* the open-positions cap is reported although the kill switch fails as well
C14_Witness ==
    /\ CheckRecorded
    /\ h_check.reason = "max_open_positions"
    /\ RuleFails(8)
    /\ ~RuleFails(9)

----------------------------------------------------------------------------
(* Strategies: properties *)

\* order ids of the orders the step places
PlacedNow == (Len(orders) + 1)..Len(orders')

\* the order was placed by the market maker
MakerOrder(metas, oid) ==
    "strategy" \in DOMAIN metas[oid] /\ metas[oid].strategy = "market_making"

\* C15: the bid and ask the market maker places satisfy target_bid < target_ask,
\* both are integer multiples of the tick, target_bid <= best_ask - tick and
\* target_ask >= best_bid + tick, for every two-sided TOB, on or off the tick
\* grid, and every inventory (as stated; the code places quotes off the grid)
C15_MakerQuotesOnGrid ==
    [][\A i \in PlacedNow :
         MakerOrder(_meta_by_order_id', i) =>
           LET o == orders'[i]
               tob == StateTob(o.market_id)
           IN /\ o.price % PriceTick = 0
              /\ o.side = "buy" => o.price <= tob.best_ask - PriceTick
              /\ o.side = "sell" => o.price >= tob.best_bid + PriceTick
              /\ \A j \in PlacedNow :
                    (o.side = "buy" /\ orders'[j].side = "sell")
                      => o.price < orders'[j].price]_vars

\* C16: every order created through place_limit by the engine has size > 0 and
\* a price strictly between 0 and 1 (as stated; the market maker places a bid
\* at price 0)
C16_OrderPriceInsideUnitInterval ==
    \A oid \in DOMAIN orders :
        /\ orders[oid].size > 0
        /\ orders[oid].price > 0
        /\ orders[oid].price < PriceOne

\* C17: after any sequence of apply_fill calls, and after the portfolio is rehydrated
\* from the snapshot rows, every position with qty = 0 has avg_price = 0 and
\* opened_ts = 0
C17_FlatPositionIsClean ==
    \A m \in DOMAIN positions :
        positions[m].qty = 0 =>
            positions[m].avg_price = Zero /\ positions[m].opened_ts = 0

\* a position closed by a fill after the clock moved, snapshotted flat and rehydrated
C17_Witness ==
    /\ now > 0
    /\ h_applied >= 2
    /\ \E m \in DOMAIN positions \cap DOMAIN pos_snapshots :
          /\ positions[m].qty = 0
          /\ positions[m].realized_pnl # Zero
          /\ pos_snapshots[m].position = 0
          /\ positions = Rehydrated(pos_snapshots, now)


\* the requests of the orders the step places, in the order it places them
PlacedRequests ==
    [k \in 1..(Len(orders') - Len(orders)) |->
        OrderRequest(orders'[Len(orders) + k].market_id, orders'[Len(orders) + k].side,
                     orders'[Len(orders) + k].price, orders'[Len(orders) + k].size)]

\* the step is one CrossVenueFairValueStrategy.on_market call for market m
CrossVenueCall(m) ==
    \/ m = ReplayMarket /\ LiveStrategy
    \/ (mode = "backtest" /\ bt_pc = "strategies" /\ m = tape[tape_pos + 1].market_id
          /\ BacktestStrategies)

TwoSided(m) == StateTob(m).best_bid # NoPrice /\ StateTob(m).best_ask # NoPrice
BuySignal(m) ==
    /\ TwoSided(m)
    /\ StateTob(m).best_ask <
         apply_buffers(prob_to_price(FairProb(m)), settings.fees_bps, settings.slippage_bps,
                       settings.latency_bps, "buy") - settings.edge_buffer
SellSignal(m) ==
    /\ TwoSided(m)
    /\ StateTob(m).best_bid >
         apply_buffers(prob_to_price(FairProb(m)), settings.fees_bps, settings.slippage_bps,
                       settings.latency_bps, "sell") + settings.edge_buffer
\* the order the signals and the risk check call for, as a list of at most one request
SignalledRequests(m) ==
    LET buy == OrderRequest(m, "buy", StateTob(m).best_ask, settings.base_order_size)
        sell == OrderRequest(m, "sell", StateTob(m).best_bid, settings.base_order_size)
    IN IF BuySignal(m) THEN (IF RiskOf(buy) = "ok" THEN <<buy>> ELSE <<>>)
       ELSE IF SellSignal(m) THEN (IF RiskOf(sell) = "ok" THEN <<sell>> ELSE <<>>)
       ELSE <<>>
\* the market traded less than min_trade_cooldown_secs ago
WithinCooldown(m) ==
    /\ m \in DOMAIN last_trade_ts
    /\ now - last_trade_ts[m] < settings.min_trade_cooldown_secs

\* C19 as stated: one on_market call of the cross-venue taker places a BUY at best_ask,
\* size base_order_size, if best_ask < buy_fair - edge and the risk check passes;
\* otherwise a SELL at best_bid if best_bid > sell_fair + edge and the risk check
\* passes; and nothing in every other case
C19_SignalDecidesOrder ==
    [][\A m \in Markets : CrossVenueCall(m) => PlacedRequests = SignalledRequests(m)]_vars

\* C19 amended: a call made less than min_trade_cooldown_secs after the market's last
\* cross-venue trade places nothing; any other call places the order the signals and
\* the risk check call for, at most one
C19_SignalDecidesOrderAfterCooldown ==
    [][\A m \in Markets :
          CrossVenueCall(m) =>
            PlacedRequests = IF WithinCooldown(m) THEN <<>> ELSE SignalledRequests(m)]_vars

\* a replayed on_market call has just placed a BUY at the best ask, which starts the
\* cooldown of the market
C19_Witness ==
    /\ mode = "backtest" /\ bt_pc = "snapshots"
    /\ Len(orders) >= 1
    /\ orders[Len(orders)].side = "buy"
    /\ orders[Len(orders)].created_ts = now
    /\ orders[Len(orders)].price = StateTob(orders[Len(orders)].market_id).best_ask
    /\ orders[Len(orders)].size = settings.base_order_size
    /\ orders[Len(orders)].market_id \in DOMAIN last_trade_ts
    /\ last_trade_ts[orders[Len(orders)].market_id] = now

\* the quotes are to be centred on the book mid: strict mode, or an external source
\* that is "mock" in any letter case
ExpectBookMid == settings.disallow_mock_data \/ odds.source \in {"mock", "Mock"}

\* C20: the market maker uses the book mid as fair, records meta source "book_mid" and
\* no external_source key whenever disallow_mock_data is set or the external odds
\* source normalizes to "mock"; only otherwise it centres the quotes on the external
\* fair and records external_source
C20_MockFairFallsBackToMid ==
    [][\A i \in PlacedNow :
         MakerOrder(_meta_by_order_id', i) =>
           LET o == orders'[i]
               meta == _meta_by_order_id'[i]
               tob == StateTob(o.market_id)
               mid == Rat(tob.best_bid + tob.best_ask, 2)
               fair == IF ExpectBookMid THEN mid ELSE RInt(prob_to_price(odds.fair_prob))
               targets == MakerTargets(tob, CurQty(positions, o.market_id), fair)
           IN /\ meta.fair = fair
              /\ meta.mid = mid
              /\ o.price = IF o.side = "buy" THEN targets[1] ELSE targets[2]
              /\ ExpectBookMid =>
                    meta.source = "book_mid" /\ "external_source" \notin DOMAIN meta
              /\ ~ExpectBookMid =>
                    /\ meta.source = odds.source
                    /\ "external_source" \in DOMAIN meta
                    /\ meta.external_source = odds.source]_vars

\* a quote placed from the book mid because the provider's source is "Mock", in a run
\* where strict mode is off
C20_Witness ==
    /\ ~settings.disallow_mock_data
    /\ odds.source = "Mock"
    /\ \E i \in 1..Len(orders) :
          /\ MakerOrder(_meta_by_order_id, i)
          /\ _meta_by_order_id[i].source = "book_mid"
          /\ _meta_by_order_id[i].fair = _meta_by_order_id[i].mid
          /\ "external_source" \notin DOMAIN _meta_by_order_id[i]

\* the open orders of market m and side s that the market maker placed
OpenMakerOrders(m, s) ==
    { i \in 1..Len(orders) :
        /\ MakerOrder(_meta_by_order_id, i)
        /\ orders[i].market_id = m /\ orders[i].side = s
        /\ orders[i].status = "open" }

\* C26: at any time at most one order placed by the market maker is open in the
\* broker per market and side
C26_OneQuotePerSide ==
    \A m \in Markets, s \in Sides : Cardinality(OpenMakerOrders(m, s)) <= 1

\* a quote was replaced: the earlier order of the side is cancelled and the later
\* one rests in its place
C26_Witness ==
    \E i, j \in 1..Len(orders) :
        /\ i < j
        /\ MakerOrder(_meta_by_order_id, i) /\ MakerOrder(_meta_by_order_id, j)
        /\ orders[i].market_id = orders[j].market_id /\ orders[i].side = orders[j].side
        /\ orders[i].status = "cancelled"
        /\ orders[j].status = "open"
        /\ OpenMakerOrders(orders[j].market_id, orders[j].side) = {j}

\* a quote cancelled after a risk rejection: nothing rests on its side and the
\* strategy no longer tracks a quote there
QuoteCancelledOnRejection ==
    \E i \in 1..Len(orders) :
        /\ MakerOrder(_meta_by_order_id, i)
        /\ orders[i].status = "cancelled"
        /\ OpenMakerOrders(orders[i].market_id, orders[i].side) = {}
        /\ orders[i].market_id \in DOMAIN _quotes
        /\ (IF orders[i].side = "buy" THEN "bid" ELSE "ask")
             \notin DOMAIN _quotes[orders[i].market_id]

----------------------------------------------------------------------------
(* Store: properties *)

IterDone == DOMAIN h_iter # {}

\* C18: iter_tape(start, end) yields exactly the tape rows with start <= ts <= end
\* (a missing bound is unbounded), each once, in non-decreasing ts, rows of equal ts
\* in insertion order
C18_IterTapeFiltersAndOrders ==
    IterDone =>
        /\ { h_iter.ids[k] : k \in 1..Len(h_iter.ids) } =
              { i \in 1..Len(h_iter.table) :
                  /\ (h_iter.start_ts # NoTs => h_iter.table[i].ts >= h_iter.start_ts)
                  /\ (h_iter.end_ts # NoTs => h_iter.table[i].ts <= h_iter.end_ts) }
        /\ \A j, k \in 1..Len(h_iter.ids) :
              j < k =>
                /\ h_iter.ids[j] # h_iter.ids[k]
                /\ h_iter.rows[j].ts <= h_iter.rows[k].ts
                /\ (h_iter.rows[j].ts = h_iter.rows[k].ts => h_iter.ids[j] < h_iter.ids[k])
        /\ \A k \in 1..Len(h_iter.ids) : h_iter.rows[k] = h_iter.table[h_iter.ids[k]]

\* a read with both bounds that leaves a row out, yields a later-inserted row before
\* an earlier one, and yields two rows of equal ts
C18_Witness ==
    /\ IterDone
    /\ h_iter.start_ts # NoTs /\ h_iter.end_ts # NoTs
    /\ Len(h_iter.ids) < Len(h_iter.table)
    /\ \E j, k \in 1..Len(h_iter.ids) : j < k /\ h_iter.ids[j] > h_iter.ids[k]
    /\ \E j, k \in 1..Len(h_iter.ids) : j < k /\ h_iter.rows[j].ts = h_iter.rows[k].ts

----------------------------------------------------------------------------
(* Portfolio: opening, extending and flipping fills *)

\* the position of market m before a fill, a new Position if there is none
PositionBefore(m) ==
    IF m \in DOMAIN positions THEN positions[m]
    ELSE [qty |-> 0, avg_price |-> Zero, realized_pnl |-> Zero, opened_ts |-> 0]

\* the step applies the one fill to the portfolio, at the clock "now" as the fill's ts
AppliesFill(fill) ==
    /\ h_applied' = h_applied + 1
    /\ positions' = apply_fill(positions, fill, EventOf(fill.market_id), now)

\* C29: a fill that takes qty from one sign to the opposite sign realizes PnL on
\* exactly the old |qty|, sets avg_price to the fill price and opened_ts to the
\* fill's ts; a fill that opens from flat sets opened_ts to the fill's ts; a fill
\* that extends the position in its direction leaves realized_pnl and opened_ts
\* unchanged
C29_FlipOpenExtend ==
    [][\A fill \in FillInputs :
          AppliesFill(fill) =>
            LET old == PositionBefore(fill.market_id)
                new == positions'[fill.market_id]
                signed == IF fill.side = "buy" THEN fill.size ELSE -fill.size
                per_unit == IF old.qty > 0 THEN RSub(RInt(fill.price), old.avg_price)
                            ELSE RSub(old.avg_price, RInt(fill.price))
            IN /\ new.qty = old.qty + signed
               /\ ((old.qty > 0 /\ new.qty < 0) \/ (old.qty < 0 /\ new.qty > 0)) =>
                     /\ new.realized_pnl =
                          RAdd(old.realized_pnl, RMul(per_unit, RInt(Abs(old.qty))))
                     /\ new.avg_price = RInt(fill.price)
                     /\ new.opened_ts = now
               /\ (old.qty = 0 /\ new.qty # 0) => new.opened_ts = now
               /\ ((old.qty > 0 /\ signed > 0) \/ (old.qty < 0 /\ signed < 0)) =>
                     /\ new.realized_pnl = old.realized_pnl
                     /\ new.opened_ts = old.opened_ts]_vars

\* a position that a fill at a later clock flipped: it was opened at that clock, at
\* a fill price, with PnL realized, although an earlier fill had opened the market
C29_Witness ==
    /\ now > 0
    /\ h_applied = 2
    /\ \E m \in DOMAIN positions :
          /\ positions[m].qty # 0
          /\ positions[m].opened_ts = now
          /\ positions[m].realized_pnl # Zero
          /\ positions[m].avg_price[2] = 1
          /\ m \in DOMAIN pos_snapshots
          /\ pos_snapshots[m].position # 0
          /\ (pos_snapshots[m].position > 0) # (positions[m].qty > 0)

----------------------------------------------------------------------------
(* Restart: properties *)

\* the latest snapshot row of every position is the position as it is now
SnapshotsCurrent ==
    \A m \in DOMAIN positions :
        /\ m \in DOMAIN pos_snapshots
        /\ pos_snapshots[m].position = positions[m].qty
        /\ pos_snapshots[m].avg_price = positions[m].avg_price
        /\ pos_snapshots[m].realized_pnl = positions[m].realized_pnl
        /\ pos_snapshots[m].event_id = positions[m].event_id

\* C22: when _persist_snapshots has written the portfolio and the paper trader
\* restarts (no reset, rehydration not opted out), the new Portfolio holds, for every
\* market whose qty or realized_pnl was non-zero, the same qty, avg_price,
\* realized_pnl and event_id as before the restart
C22_RehydrationRoundTrip ==
    [][(RestartStep /\ SnapshotsCurrent) =>
          \A m \in DOMAIN positions :
              (positions[m].qty # 0 \/ positions[m].realized_pnl # Zero) =>
                  /\ m \in DOMAIN positions'
                  /\ positions'[m].qty = positions[m].qty
                  /\ positions'[m].avg_price = positions[m].avg_price
                  /\ positions'[m].realized_pnl = positions[m].realized_pnl
                  /\ positions'[m].event_id = positions[m].event_id]_vars

\* a flat position that carries realized PnL, as a restart after the clock moved on
\* loads it from its snapshot row
C22_Witness ==
    /\ now > 0
    /\ positions = Rehydrated(pos_snapshots, now)
    /\ SnapshotsCurrent
    /\ \E m \in DOMAIN positions :
          positions[m].qty = 0 /\ positions[m].realized_pnl # Zero

----------------------------------------------------------------------------
(* Feed: properties *)

\* the events of h_events with index below k that are about market m
EarlierEvents(k, m) == { j \in 1..(k - 1) : h_events[j].market_id = m }
\* the quote of the event before event k of the same market, NoPair if there is none
QuoteBefore(k) ==
    LET earlier == EarlierEvents(k, h_events[k].market_id)
    IN IF earlier = {} THEN NoPair
       ELSE LET j == CHOOSE x \in earlier : \A y \in earlier : y <= x
            IN <<h_events[j].tob.best_bid, h_events[j].tob.best_ask>>
QuoteOf(k) == <<h_events[k].tob.best_bid, h_events[k].tob.best_ask>>
\* the events whose quote differs from the last quote observed for their market
ChangedEvents == { k \in 1..Len(h_events) : QuoteOf(k) # QuoteBefore(k) }
\* the wanted markets the current poll has gone through that are in its response
PolledMarkets == { i \in 1..(poll.i - 1) : poll.want[i] \in DOMAIN poll.by_id }

\* C21: on every successful poll the Gamma feed yields, for every wanted market present
\* in the response, exactly one BookEvent whose tob.ts is the poll's observation time,
\* whether or not bid/ask changed; consecutive BookEvents of a market have strictly
\* increasing ts; and a tape row is written only for a quote that differs from the
\* last one observed for the market
C21_GammaHeartbeat ==
    /\ poll.pc = "emit" =>
          /\ \A i \in PolledMarkets :
                Cardinality({ k \in 1..Len(h_events) :
                                /\ h_events[k].poll = poll.polls
                                /\ h_events[k].market_id = poll.want[i]
                                /\ h_events[k].tob.ts = poll.now
                                /\ QuoteOf(k) = poll.by_id[poll.want[i]] }) = 1
          /\ Cardinality({ k \in 1..Len(h_events) : h_events[k].poll = poll.polls })
               = Cardinality(PolledMarkets)
    /\ \A j, k \in 1..Len(h_events) :
          (j < k /\ h_events[j].market_id = h_events[k].market_id)
            => h_events[j].tob.ts < h_events[k].tob.ts
    /\ Len(tape) = Cardinality(ChangedEvents)
    /\ \A r \in 1..Len(tape) :
          \E k \in ChangedEvents :
             /\ tape[r].ts = h_events[k].tob.ts
             /\ tape[r].market_id = h_events[k].market_id
             /\ <<tape[r].tob.best_bid, tape[r].tob.best_ask>> = QuoteOf(k)

\* a finished poll whose two wanted markets both got an event, one of them a
\* heartbeat: its quote is unchanged, its ts is later, and no tape row was written
C21_Witness ==
    /\ poll.pc = "emit" /\ poll.i > Len(poll.want) /\ Len(poll.want) = 2
    /\ Cardinality({ k \in 1..Len(h_events) : h_events[k].poll = poll.polls }) = 2
    /\ \E k \in 1..Len(h_events) :
          /\ h_events[k].poll = poll.polls
          /\ QuoteBefore(k) = QuoteOf(k)
          /\ Len(tape) < Len(h_events)

----------------------------------------------------------------------------
(* Inventory unwind: properties *)

FlattenOrder(metas, oid) ==
    "strategy" \in DOMAIN metas[oid] /\ metas[oid].strategy = "risk_inventory_unwind"

UnwindCall == PaperUnwind \/ BacktestUnwind

\* orders of the market m placed by the step
NewOrders(m) == { oid \in (Len(orders) + 1)..Len(orders') : orders'[oid].market_id = m }

\* the order that flattens the position of m by crossing the book
ExpectedFlatten(m) ==
    [market_id |-> m,
     side |-> IF positions'[m].qty > 0 THEN "sell" ELSE "buy",
     price |-> IF positions'[m].qty > 0 THEN state_tob[m].best_bid
               ELSE state_tob[m].best_ask,
     size |-> Abs(positions'[m].qty),
     created_ts |-> now, status |-> "open", filled_size |-> 0]

\* C27: in a market whose flatten order passed the risk check, an unwind call leaves
\* no earlier order of the market open and places exactly one order, open, crossing
\* the book (sell at best_bid for a long position, buy at best_ask for a short one)
\* for |qty| of the position as it is when the order is placed; in every other
\* market, a risk rejection included, it places no order and changes neither the
\* market's orders nor the throttle entry; positions and TOBs are never changed
C27_UnwindCancelsThenCrosses ==
    [][UnwindCall =>
        /\ positions' = positions
        /\ state_tob' = state_tob
        /\ \A m \in Markets :
              IF m \in DOMAIN h_unwind' /\ h_unwind'[m] = "ok"
              THEN /\ \A oid \in 1..Len(orders) :
                        orders[oid].market_id = m =>
                            /\ orders'[oid].status # "open"
                            /\ orders[oid].status # "open" => orders'[oid] = orders[oid]
                   /\ \E oid \in NewOrders(m) :
                        /\ NewOrders(m) = {oid}
                        /\ orders'[oid] = ExpectedFlatten(m)
                        /\ FlattenOrder(_meta_by_order_id', oid)
              ELSE /\ NewOrders(m) = {}
                   /\ \A oid \in 1..Len(orders) :
                        orders[oid].market_id = m => orders'[oid] = orders[oid]
                   /\ mode = "live" =>
                        /\ (m \in DOMAIN last_unwind_ts') = (m \in DOMAIN last_unwind_ts)
                        /\ m \in DOMAIN last_unwind_ts =>
                              last_unwind_ts'[m] = last_unwind_ts[m]
    ]_vars

\* an unwind call cancelled a resting order of a strategy and placed a flatten order
\* in its market, and the risk check rejected the flatten order of another market
C27_Witness ==
    /\ \E i, j \in 1..Len(orders) :
          /\ i < j
          /\ orders[i].market_id = orders[j].market_id
          /\ ~FlattenOrder(_meta_by_order_id, i) /\ orders[i].status = "cancelled"
          /\ FlattenOrder(_meta_by_order_id, j) /\ orders[j].status = "open"
          /\ orders[j].market_id \in DOMAIN h_unwind
          /\ h_unwind[orders[j].market_id] = "ok"

\* an unwind call whose flatten order the risk check rejected, in a market with a
\* resting order
UnwindRejected ==
    \E m \in DOMAIN h_unwind :
        /\ h_unwind[m] # "ok"
        /\ \E oid \in 1..Len(orders) : orders[oid].market_id = m /\ orders[oid].status = "open"

\* C28: two flatten orders of the unwind step for the same market are at least
\* max(10, unwind_interval_secs) seconds apart, in the paper loop and in the backtest
C28_FlattenOrdersThrottled ==
    \A i, j \in 1..Len(orders) :
        /\ i < j
        /\ FlattenOrder(_meta_by_order_id, i) /\ FlattenOrder(_meta_by_order_id, j)
        /\ orders[i].market_id = orders[j].market_id
        => orders[j].created_ts - orders[i].created_ts >= min_repeat

\* the same, for the paper loop alone
PaperFlattenOrdersThrottled == mode = "live" => C28_FlattenOrdersThrottled

\* the paper loop placed two flatten orders for one market
PaperFlattenedTwice ==
    /\ mode = "live"
    /\ \E i, j \in 1..Len(orders) :
          /\ i < j
          /\ FlattenOrder(_meta_by_order_id, i) /\ FlattenOrder(_meta_by_order_id, j)
          /\ orders[i].market_id = orders[j].market_id

----------------------------------------------------------------------------
(* Engine tasks: properties *)

\* C23: while the engine runs, the Portfolio (the positions map and each position's
\* qty, avg_price, realized_pnl and last_mark) changes only in the body of
\* _apply_fills, with SharedState.lock held by the task that applies the fills.
C23_PortfolioOnlyInApplyFills ==
    [][positions' # positions =>
          /\ lock = running /\ running # NoTask
          /\ task_pc[running] = "apply_locked"]_vars

\* a snapshot round has changed a position's last_mark with the lock free
MarkWrittenUnlocked ==
    /\ \E x \in h_ops : /\ x.task = "snapshot" /\ x.site = "_persist_snapshots"
                        /\ x.op = "portfolio" /\ x.lock = NoTask
    /\ \E m \in DOMAIN positions : positions[m].last_mark # positions[m].avg_price

\* the feed task is between the TOB write of a BookEvent for m and the end of its
\* handling
FeedHandling(m) ==
    /\ task_pc["feed"] \in {"tob_locked", "on_book", "apply_locked"}
    /\ loc.ev # <<>>
    /\ loc.ev.market_id = m

\* C24: from the moment a strategy evaluation, a close-before-end step or an unwind
\* step has read the TOB of a market m until it has finished its risk checks and
\* its order placements, no BookEvent for m is handled.
C24_BookEventsSerialized ==
    \A t \in DOMAIN h_eval : \A m \in h_eval[t] : ~FeedHandling(m)

\* a strategy step is acting on the TOB it read, of a market the feed has written
\* and on which orders have been placed
C24_Witness ==
    /\ running = "strategy" /\ task_pc["strategy"] = "act"
    /\ \E m \in h_eval["strategy"] :
          /\ m \in DOMAIN state_tob
          /\ \E oid \in DOMAIN orders : orders[oid].market_id = m
    /\ \E x \in h_ops : x.task = "feed" /\ x.op = "broker"

\* C25: SharedState.lock is held only by the task that is running, so no task
\* holds it while it is suspended, and every broker call (the only place the
\* broker lock is held), store write, odds fetch and sleep is made with
\* SharedState.lock free.
C25_LockNeverHeldAcrossSuspension ==
    /\ lock # NoTask => lock = running
    /\ \A x \in h_ops : x.op \in {"broker", "store", "odds", "sleep"} => x.lock = NoTask

\* a strategy holds the lock for a copy after broker calls, odds fetches, store
\* writes and sleeps have been made
C25_Witness ==
    /\ lock = "strategy"
    /\ \E x \in h_ops : x.task = "strategy" /\ x.op = "broker"
    /\ \E x \in h_ops : x.task = "strategy" /\ x.op = "odds"
    /\ \E x \in h_ops : x.task = "unwind" /\ x.op = "broker"
    /\ \E x \in h_ops : x.task = "snapshot" /\ x.op = "store"
    /\ \E x \in h_ops : x.op = "sleep"

RankedInMarkets ==
    \A i \in 1..Len(ranked_markets) : ranked_markets[i] \in DOMAIN markets

\* C30: a failed scan leaves SharedState.markets and SharedState.ranked_markets as
\* they were and the scanner sleeps market_refresh_secs before its next scan; a
\* successful scan replaces both in one critical section; at every moment every id
\* of ranked_markets is a key of markets.
C30_FailedScanKeepsMarkets ==
    /\ []RankedInMarkets
    /\ [][/\ ScannerFails =>
                /\ markets' = markets /\ ranked_markets' = ranked_markets
                /\ task_pc'["scanner"] = "sleep"
                /\ scan_wake' = now + settings.market_refresh_secs
          /\ (markets' # markets \/ ranked_markets' # ranked_markets) =>
                /\ lock = "scanner" /\ task_pc["scanner"] = "locked"
                /\ markets' = MarketsById(loc.scan.eligible)
                /\ Len(ranked_markets') = Len(loc.scan.top)]_vars

\* a scan has failed after a successful one, whose markets are still in place
C30_Witness ==
    /\ h_scans = << "ok", "failed" >>
    /\ markets # <<>> /\ ranked_markets # <<>>
    /\ task_pc["scanner"] = "sleep"
    /\ scan_wake = now + settings.market_refresh_secs

----------------------------------------------------------------------------
(* Engine under store failures: properties *)

\* C31: a failure raised in the per-market work of a strategy_loop cycle, in the
\* close-before-end step or in a strategy's on_market, leaves the loop at its next
\* step of the same cycle: the task does not end.
C31_StrategyFailureIsolated ==
    [][(CloseStepRaises \/ OnMarketRaises) =>
          /\ task_pc'["strategy"] = "next"
          /\ loc' = loc]_vars

\* the part that holds: a failure of on_market is caught by the loop
OnMarketFailureIsolated ==
    [][OnMarketRaises => task_pc'["strategy"] = "next" /\ loc' = loc /\ ~Halted']_vars

\* the loop has gone on to a later step after a failure of on_market
LoopWentOnAfterFailure ==
    /\ \E x \in h_ops : x.task = "strategy" /\ x.op = "raised"
    /\ ~Halted
    /\ task_pc["strategy"] = "act" /\ EvalPhase = "close"

\* the strategy task has ended in the close-before-end step
StrategyLoopEnded ==
    /\ task_pc["strategy"] = "crashed"
    /\ \E x \in h_ops : x.site = "close" /\ x.op = "raised"

----------------------------------------------------------------------------
(* WebSocket feed: properties *)

\* the n-th delay in a row since the last successful connect, without the jitter
ExpectedBackoff(n) == IMin(BackoffCap, BackoffStart * 2^(n - 1))

\* C33: every end of a WebSocket connection is followed by a backoff delay before the
\* next attempt, 1 s doubling per consecutive end up to 30 s plus a jitter below
\* 0.25 s and back at 1 s after a successful connect, and the feed never stops retrying.
C33_BackoffAfterEveryEnd ==
    /\ ws.pc # "ended"
    /\ h_ws.ends > 0 =>
          /\ h_ws.delay >= ExpectedBackoff(h_ws.streak)
          /\ h_ws.delay < ExpectedBackoff(h_ws.streak) + JitterSpan

\* the part that holds: an end that goes through the `except Exception` clause is
\* followed by the delay of the schedule, and a connect puts the backoff back to 1 s
BackoffSchedule ==
    /\ (h_ws.ends > 0 /\ h_ws.delay # NoDelay) =>
          /\ h_ws.kind \in {"connect_failure", "error"}
          /\ h_ws.delay >= ExpectedBackoff(h_ws.streak)
          /\ h_ws.delay < ExpectedBackoff(h_ws.streak) + JitterSpan
    /\ ws.pc = "recv" => ws.backoff = BackoffStart
    /\ ws.backoff <= BackoffCap

\* the server closed the connection and the generator has ended
FeedEndedOnDisconnect ==
    /\ ws.pc = "ended"
    /\ h_ws.kind = "server_disconnect"

\* the generator reconnects at once after a stale socket
ReconnectWithoutDelay ==
    /\ ws.pc = "connect"
    /\ h_ws.kind = "stale" /\ h_ws.delay = NoDelay

\* the delay has reached the cap
BackoffAtCap ==
    /\ h_ws.kind = "connect_failure"
    /\ h_ws.delay >= BackoffCap /\ h_ws.streak > 6
    /\ ws.backoff = BackoffCap

\* C32: a store failure in a telemetry write never aborts trading: the write of the
\* runtime status that raises does not end the feed generator.
C32_StatusWriteFailureCaught ==
    [][WsStatusRaises => ws'.pc # "ended"]_vars

\* a status write has raised and the generator has ended
FeedEndedOnStatusWrite ==
    /\ ws.pc = "ended"
    /\ h_ws.kind \in {"status_write", "connect_failure"}

----------------------------------------------------------------------------
(* Cross-venue cooldown: properties *)

\* C34: two orders the cross-venue taker places in one market are at least
\* min_trade_cooldown_secs apart, and the cooldown of a market always starts at the
\* time of an order placed in it: an attempt the risk check rejects starts none.
C34_OneOrderPerCooldown ==
    /\ \A i, j \in 1..Len(orders) :
          (i < j /\ orders[i].market_id = orders[j].market_id) =>
             orders[j].created_ts - orders[i].created_ts >= settings.min_trade_cooldown_secs
    /\ \A m \in DOMAIN last_trade_ts :
          \E i \in 1..Len(orders) :
             orders[i].market_id = m /\ orders[i].created_ts = last_trade_ts[m]

\* two orders a cooldown apart, then, once the second cooldown is over, an attempt
\* that the risk check rejected and that left the cooldown where the second order put it
C34_Witness ==
    /\ Len(orders) = 2
    /\ orders[2].created_ts - orders[1].created_ts >= settings.min_trade_cooldown_secs
    /\ h_check.reason \notin {"ok", "none"}
    /\ last_trade_ts[CooldownMarket] = orders[2].created_ts
    /\ ~CoolingDown(CooldownMarket)

----------------------------------------------------------------------------
(* run_backtest and the store lock: properties *)

\* C35: run_backtest never blocks forever on a lock: the store writes made while the
\* tape iterator is open complete, and the loop ends only after every row of the tape.
C35_BacktestNeverBlocks ==
    /\ bt.pc # "blocked"
    /\ bt.pc = "done" => bt.pos = Len(bt.rows)

\* the first store write of the loop body waits for the lock that iter_tape holds
BacktestBlocked ==
    /\ bt.pc = "blocked"
    /\ bt.lock = "iter_tape"
    /\ bt.pos = 1 /\ bt.writes = 0

\* the runs that end: tapes without any row that becomes an event
BacktestEndsOnlyWithoutEvents ==
    bt.pc = "done" => \A i \in 1..Len(bt.rows) : bt.rows[i] = "other"

\* a tape of rows that are skipped is read to its end
BacktestDoneAfterSkips ==
    /\ bt.pc = "done" /\ Len(bt.rows) = MaxBtRows

\* C36: in a paper engine started flat, where every order is placed after an ok
\* pre_trade_check, |qty| <= max_pos_per_market holds for every market in every
\* reachable state, also when several open orders of a market fill on one event.
C36_PositionWithinCap ==
    \A m \in DOMAIN positions : Abs(positions[m].qty) <= settings.max_pos_per_market

\* two resting buys of the market, each checked against a flat position, have filled on
\* one book event
TwoLotsFilledOnOneEvent ==
    /\ Len(orders) = 2
    /\ \A i \in 1..2 : orders[i].side = "buy" /\ orders[i].status = "filled"
    /\ Cardinality(fills) = 2
    /\ CurQty(positions, CooldownMarket) = 2 * settings.base_order_size
    /\ CurQty(positions, CooldownMarket) > settings.max_pos_per_market

----------------------------------------------------------------------------
(* Close before the end of a market: properties *)

\* the order was placed by _maybe_close_before_end and is open
IsOpenClose(i, m) ==
    /\ orders[i].market_id = m /\ orders[i].status = "open"
    /\ "strategy" \in DOMAIN _meta_by_order_id[i]
    /\ _meta_by_order_id[i].strategy = "risk_close_before_end"

RECURSIVE OpenCloseSize(_, _)
\* total size of the open orders of _maybe_close_before_end among the first n orders
OpenCloseSize(m, n) ==
    IF n = 0 THEN 0
    ELSE OpenCloseSize(m, n - 1) + (IF IsOpenClose(n, m) THEN orders[n].size ELSE 0)

\* C37: the open orders that _maybe_close_before_end has placed in a market never add
\* up to more than |qty| of its position, however many cycles of strategy_loop run
\* between two BookEvents.
C37_NeverOverFlattens ==
    \A m \in DOMAIN positions :
       OpenCloseSize(m, Len(orders)) <= Abs(CurQty(positions, m))

\* two cycles of strategy_loop with no BookEvent handled in between have each placed a
\* flatten order for the whole position
FlattenedTwice ==
    \E m \in DOMAIN positions :
       \E i, j \in 1..Len(orders) :
          /\ i < j
          /\ IsOpenClose(i, m) /\ IsOpenClose(j, m)
          /\ orders[i].size = Abs(CurQty(positions, m))
          /\ orders[j].size = Abs(CurQty(positions, m))
          /\ h_applied = 0

----------------------------------------------------------------------------
(* Fills and the portfolio in the engine: properties *)

\* the feed task is not handling an event
FeedBetweenEvents == task_pc["feed"] \notin {"tob_locked", "on_book", "apply_locked"}

\* the position of the market when the tasks start
StartQty(m) ==
    CurQty(Rehydrated(CHOOSE rows \in UnwindSnapshots \ {<<>>} : TRUE, Epoch), m)

RECURSIVE SignedFillSum(_, _)
\* signed sum of the sizes of the fills of the set fs that are for the market m, each
\* counted as often as the broker has produced it
SignedFillSum(fs, m) ==
    IF fs = {} THEN 0
    ELSE LET f == CHOOSE x \in fs : TRUE
         IN (IF f.market_id = m
             THEN CopiesIn(f, store_fills) * SignedQty(f.side, f.size) ELSE 0)
            + SignedFillSum(fs \ {f}, m)

\* C38: every fill the broker produces is applied to the portfolio exactly once:
\* between two feed events the qty of every market is its qty at the start plus the
\* signed sum of the fills produced for it, every filled order has one fill and every
\* fill has been applied.
C38_FillsAppliedOnce ==
    FeedBetweenEvents =>
       /\ \A m \in Markets :
             CurQty(positions, m) = StartQty(m) + SignedFillSum(BagToSet(store_fills), m)
       /\ { oid \in DOMAIN orders : orders[oid].status = "filled" }
             = { f.order_id : f \in BagToSet(store_fills) }
       /\ \A f \in BagToSet(store_fills) : CopiesIn(f, store_fills) = 1
       /\ h_applied = BagCardinality(store_fills)

\* one BookEvent has filled two orders of a market, both fills are applied and the feed
\* is between events
C38_Witness ==
    /\ FeedBetweenEvents
    /\ Cardinality(fills) = 2
    /\ h_applied = 2
    /\ \E m \in Markets : CurQty(positions, m) # StartQty(m)

----------------------------------------------------------------------------
(* Age-based unwind: liveness *)

\* the market has a non-zero position
Held(m) == CurQty(positions, m) # 0

\* the market has a long position
HeldLong(m) == CurQty(positions, m) > 0

\* the market has a short position
HeldShort(m) == CurQty(positions, m) < 0

\* the latest TOB of the market is two-sided and passes the circuit breaker now: fresh,
\* uncrossed, spread within max_spread
Fed(m) ==
    /\ m \in DOMAIN state_tob
    /\ state_tob[m].best_bid # NoPrice /\ state_tob[m].best_ask # NoPrice
    /\ 0 <= state_tob[m].best_bid /\ state_tob[m].best_ask <= PriceOne
    /\ circuit_ok(state_tob[m], now) = "ok"

\* the unwind loop has placed a flatten order for the market
FlattenPlaced(m) ==
    \E i \in DOMAIN orders :
       /\ orders[i].market_id = m
       /\ _meta_by_order_id[i].strategy = "risk_inventory_unwind"

\* the flatten order of the market as _inventory_unwind_once would build it now
FlattenNow(m) == FlattenRequest(m, positions[m].qty, state_tob[m], "age")

\* the event exposure rule admits the flatten order of the market
ExposureFits(m) ==
    Held(m) /\ Fed(m) =>
       ~RLt(RInt(settings.max_event_exposure),
            EventExposure(positions, positions[m].event_id,
                          SignedQty(FlattenNow(m).side, FlattenNow(m).size),
                          FlattenNow(m).price))

\* the other markets whose flatten order a cycle would place now
Placeable(m) ==
    { x \in OpenPositions(positions) \ {m} :
        /\ settings.max_pos_age_secs > 0
        /\ age_secs(positions[x], now) >= settings.max_pos_age_secs
        /\ now - (IF x \in DOMAIN last_unwind_ts THEN last_unwind_ts[x] ELSE 0) >= min_repeat
        /\ Fed(x)
        /\ pre_trade_check(x, positions[x].event_id, FlattenNow(x).side,
                           FlattenNow(x).price, FlattenNow(x).size, state_tob[x],
                           positions, now) = "ok" }

\* a cycle that runs now can reach unwind_max_markets_per_cycle before it comes to the
\* market
CrowdedOut(m) == Cardinality(Placeable(m)) >= settings.unwind_max_markets_per_cycle

\* the unwind loop flattens aged positions, and a cycle that runs now finds the TOB of
\* the market fresh, its flatten order within the exposure limit and room for it
Admitted(m) ==
    /\ settings.max_pos_age_secs > 0
    /\ Fed(m)
    /\ ExposureFits(m)
    /\ ~CrowdedOut(m)

\* C39: if max_pos_age_secs > 0 and a position stays non-zero while the feed keeps
\* delivering fresh, two-sided, uncrossed TOBs within max_spread for its market, the
\* unwind loop eventually places a flatten order for it.
C39_AgedPositionFlattened ==
    \A m \in Markets :
       <>[](settings.max_pos_age_secs > 0 /\ Held(m) /\ Fed(m)) => <>FlattenPlaced(m)

\* C39 as the code has it: the same, for a position that stays on one side, whose
\* flatten order the event exposure rule admits and which is not crowded out of the
\* cycles; the kill switch and the loss limit do not hold the order back.
C39_AgedPositionFlattenedIfAdmitted ==
    \A m \in Markets :
       /\ <>[](HeldLong(m) /\ Admitted(m)) => <>FlattenPlaced(m)
       /\ <>[](HeldShort(m) /\ Admitted(m)) => <>FlattenPlaced(m)

\* an aged position has its flatten order placed with the kill switch set
C39_Witness ==
    \E m \in Markets :
       /\ settings.kill_switch
       /\ Held(m) /\ Fed(m)
       /\ age_secs(positions[m], now) >= settings.max_pos_age_secs
       /\ FlattenPlaced(m)
       /\ m \in DOMAIN h_unwind /\ h_unwind[m] = "ok"

\* the flatten order of an aged position with a fresh TOB is rejected by the event
\* exposure rule
AgedFlattenRejected ==
    \E m \in Markets :
       /\ Held(m) /\ Fed(m)
       /\ age_secs(positions[m], now) >= settings.max_pos_age_secs
       /\ ~FlattenPlaced(m)
       /\ m \in DOMAIN h_unwind /\ h_unwind[m] = "max_event_exposure"

----------------------------------------------------------------------------
(* Market maker: the recorded quotes and the broker *)

\* the quotes and the quote meta the market maker has recorded for the market
QuotesOf(market_id) ==
    [q |-> IF market_id \in DOMAIN _quotes THEN _quotes[market_id] ELSE <<>>,
     qm |-> IF market_id \in DOMAIN _quote_meta THEN _quote_meta[market_id] ELSE <<>>]

\* _ensure_quote returns before the risk gate: a quote id is recorded for the side of
\* req, it is younger than mm_min_quote_life_secs and its price is within the reprice
\* threshold of the target
KeepsQuote(st, req) ==
    LET key == IF req.side = "buy" THEN "bid" ELSE "ask"
        last_ts == IF key \in DOMAIN st.qm THEN st.qm[key].ts ELSE 0
    IN /\ key \in DOMAIN st.q
       /\ (now - last_ts) < settings.mm_min_quote_life_secs
       /\ ~(key \in DOMAIN st.qm
            /\ Abs(st.qm[key].px - req.price) >= IMax(settings.mm_reprice_threshold, 1))

\* the order recorded for the side of req is open in the broker
RecordedQuoteOpen(st, req) ==
    LET oid == st.q[IF req.side = "buy" THEN "bid" ELSE "ask"]
    IN oid \in DOMAIN orders /\ orders[oid].status = "open"

\* the requests of an on_market call that reaches _ensure_quote now, none otherwise
QuotingRequests(market_id) ==
    IF HasMark(StateTob(market_id)) /\ StateTob(market_id).best_bid # NoPrice
       /\ StateTob(market_id).best_ask # NoPrice
       /\ ~MakerIdle(market_id, MakerRequests(market_id, odds))
    THEN { MakerRequests(market_id, odds)[i] : i \in 1..2 }
    ELSE {}

\* C40: whenever _ensure_quote decides that no replacement is needed for a side, the
\* order it has recorded for that side is still open in the broker: in every state in
\* which the strategy loop can call on_market, a side that the call would keep has
\* its recorded order open.
C40_KeptQuoteIsOpen ==
    Len(orders) + 2 <= MaxMakerOrders =>
       \A req \in QuotingRequests(MakerMarket) :
          KeepsQuote(QuotesOf(MakerMarket), req)
             => RecordedQuoteOpen(QuotesOf(MakerMarket), req)

\* a BookEvent has filled the recorded bid, and the next on_market call would keep it
FilledQuoteKept ==
    \E req \in QuotingRequests(MakerMarket) :
       /\ req.side = "buy"
       /\ KeepsQuote(QuotesOf(MakerMarket), req)
       /\ orders[QuotesOf(MakerMarket).q["bid"]].status = "filled"

====
